---- MODULE Spec2Model ----
(***************************************************************************)
(* Model of the constraint builder of detonito_core                        *)
(* (analysis/constraints.rs, analysis/observation.rs, types.rs) and of     *)
(* its play engine (engine.rs), and of the game of lib.rs.                 *)
(*                                                                         *)
(* Conventions: coordinates, variable ids and equation ids are 0-based as  *)
(* in the source; a Vec is a sequence, so the element with id i sits at    *)
(* position i + 1.  An Option is a sequence of length 0 (None) or 1        *)
(* (Some).  An Array2 is a function over its index set.                    *)
(***************************************************************************)
EXTENDS Integers, Sequences, FiniteSets, TLC

\* The builder: the observation, the configuration and the output of the
\* call, and the position of the caller.
VARIABLES obs, cfg, out, pc
\* The play engine, its value before the last call, and the last call with
\* what it returned.
VARIABLES engine, before, call
\* A union-find, and the blocks its union calls have joined so far.
VARIABLES forest, joined
\* A neighbour iterator and the items it has yielded.
VARIABLES iter, yielded

vars == <<obs, cfg, out, pc, engine, before, call, forest, joined, iter, yielded>>

----------------------------------------------------------------------------
(* Bounds of the explored input space.                                     *)

\* Coordinates are drawn from 0 .. MaxCoord and from the MaxCoord + 1 largest
\* values of a u8.
MaxCoord == 2
\* Largest number of cells (size.0 * size.1) of an observed board.
MaxCells == 4
\* Largest clue value written in a revealed cell.
MaxClue == 1
\* Largest known mine count of an observation.
MaxMines == 2

----------------------------------------------------------------------------
(* Primitive types.                                                        *)

U8_MAX == 255
U16_MAX == 65535

None == <<>>
Some(v) == <<v>>
is_some(o) == Len(o) = 1
is_none(o) == Len(o) = 0
unwrap(o) == o[1]

\* The index set of an Array2 of dimensions dim.
nd_index(dim) == (0 .. dim[1] - 1) \X (0 .. dim[2] - 1)

\* Array2::from_elem
from_elem(dim, elem) == [c \in nd_index(dim) |-> elem]

\* Variant of mult: the dimensions are added instead of multiplied.
mult_added(a, b) == IF a + b > U16_MAX THEN U16_MAX ELSE a + b

\* a.saturating_mul(b) on u16
mult(a, b) == IF a * b > U16_MAX THEN U16_MAX ELSE a * b

DISPLACEMENTS ==
    << <<-1, -1>>, <<0, -1>>, <<1, -1>>,
       <<-1, 0>>,             <<1, 0>>,
       <<-1, 1>>,  <<0, 1>>,  <<1, 1>> >>

\* u8::checked_add_signed
checked_add_signed(x, d) ==
    IF x + d < 0 \/ x + d > U8_MAX THEN None ELSE Some(x + d)

\* Variant of apply_delta: the tests read "next > max" instead of
\* "next >= max".
apply_delta_inclusive(coords, delta, bounds) ==
    LET next_x == checked_add_signed(coords[1], delta[1]) IN
    IF is_none(next_x) THEN None
    ELSE IF unwrap(next_x) > bounds[1] THEN None
    ELSE LET next_y == checked_add_signed(coords[2], delta[2]) IN
         IF is_none(next_y) THEN None
         ELSE IF unwrap(next_y) > bounds[2] THEN None
         ELSE Some(<<unwrap(next_x), unwrap(next_y)>>)

apply_delta(coords, delta, bounds) ==
    LET next_x == checked_add_signed(coords[1], delta[1]) IN
    IF is_none(next_x) THEN None
    ELSE IF unwrap(next_x) >= bounds[1] THEN None
    ELSE LET next_y == checked_add_signed(coords[2], delta[2]) IN
         IF is_none(next_y) THEN None
         ELSE IF unwrap(next_y) >= bounds[2] THEN None
         ELSE Some(<<unwrap(next_x), unwrap(next_y)>>)

\* The items NeighborIter yields from position index on, in order.
RECURSIVE NeighborIter_next(_, _, _)
NeighborIter_next(center, bounds, index) ==
    IF index >= Len(DISPLACEMENTS) THEN <<>>
    ELSE apply_delta(center, DISPLACEMENTS[index + 1], bounds)
             \o NeighborIter_next(center, bounds, index + 1)

\* NeighborIter::new
NeighborIter_new(center, bounds) == [center |-> center, bounds |-> bounds, index |-> 0]

\* One call of NeighborIter::next: the iterator afterwards and the item
\* returned.
RECURSIVE next_item(_)
next_item(it) ==
    IF it.index >= Len(DISPLACEMENTS) THEN [iter |-> it, item |-> None]
    ELSE LET item == apply_delta(it.center, DISPLACEMENTS[it.index + 1], it.bounds)
             advanced == [it EXCEPT !.index = it.index + 1]
         IN IF is_some(item) THEN [iter |-> advanced, item |-> item]
            ELSE next_item(advanced)

\* Array2::iter_neighbors: the bounds are the array's own dimensions.
iter_neighbors(dim, index) == NeighborIter_next(index, dim, 0)

----------------------------------------------------------------------------
(* Observation and configuration.                                          *)

\* An Observation; rdim and fdim are the dimensions of the two grids.
Observation(size, mine_count, rdim, revealed, fdim, flags) ==
    [size |-> size, mine_count |-> mine_count,
     rdim |-> rdim, revealed |-> revealed,
     fdim |-> fdim, flags |-> flags]

\* Result<T, GameError>
Ok(value) == [tag |-> "Ok", value |-> value]

Err(error) == [tag |-> "Err", error |-> error]

\* Variant of validate: a mine count equal to the number of cells is
\* rejected too.
validate_rejects_full_board(o) ==
    IF o.rdim # <<o.size[1], o.size[2]>> \/ o.fdim # <<o.size[1], o.size[2]>>
    THEN Err("InvalidBoardShape")
    ELSE IF is_some(o.mine_count) /\ unwrap(o.mine_count) >= mult(o.size[1], o.size[2])
    THEN Err("TooManyMines")
    ELSE Ok(<<>>)

\* Observation::validate
validate(o) ==
    IF o.rdim # <<o.size[1], o.size[2]>> \/ o.fdim # <<o.size[1], o.size[2]>>
    THEN Err("InvalidBoardShape")
    ELSE IF is_some(o.mine_count) /\ unwrap(o.mine_count) > mult(o.size[1], o.size[2])
    THEN Err("TooManyMines")
    ELSE Ok(<<>>)

\* Observation::new: "obs.validate()?; Ok(obs)"
Observation_new(size, mine_count, rdim, revealed, fdim, flags) ==
    IF validate(Observation(size, mine_count, rdim, revealed, fdim, flags)).tag = "Err"
    THEN validate(Observation(size, mine_count, rdim, revealed, fdim, flags))
    ELSE Ok(Observation(size, mine_count, rdim, revealed, fdim, flags))

FlagSemantics == {"Soft", "Strict"}
MineCountUsage == {"UseIfKnown", "Ignore"}
AnalysisConfig == [flag_semantics : FlagSemantics, mine_count_usage : MineCountUsage]
DefaultConfig == [flag_semantics |-> "Soft", mine_count_usage |-> "UseIfKnown"]

----------------------------------------------------------------------------
(* Output data model.                                                      *)

ConstraintVariable(id, coords, flagged) ==
    [id |-> id, coords |-> coords, flagged |-> flagged]

LocalClue(clue) == [tag |-> "LocalClue", clue |-> clue]
GlobalMineCount == [tag |-> "GlobalMineCount"]

ConstraintEquation(id, kind, variable_ids, target_mines) ==
    [id |-> id, kind |-> kind, variable_ids |-> variable_ids,
     target_mines |-> target_mines]

ConstraintComponent(variable_ids, equation_ids) ==
    [variable_ids |-> variable_ids, equation_ids |-> equation_ids]

InvalidObservationShape == [tag |-> "InvalidObservationShape"]
InvalidMineCount(mine_count, max_cells) ==
    [tag |-> "InvalidMineCount", mine_count |-> mine_count, max_cells |-> max_cells]
LocalClueImpossible(clue, target_mines, available_variables) ==
    [tag |-> "LocalClueImpossible", clue |-> clue, target_mines |-> target_mines,
     available_variables |-> available_variables]
GlobalMineCountImpossible(target_mines, available_variables) ==
    [tag |-> "GlobalMineCountImpossible", target_mines |-> target_mines,
     available_variables |-> available_variables]

\* The output of a call that returned; panic is FALSE for a normal return.
ConstraintBuildOutput(problem, contradictions, stats, panic) ==
    [problem |-> problem, contradictions |-> contradictions, stats |-> stats,
     panic |-> panic]

\* Variant of empty_output: contradiction_count is zeroed like the other stats.
empty_output_zero_count(contradictions) ==
    ConstraintBuildOutput(
        [variables |-> <<>>, equations |-> <<>>, components |-> <<>>,
         unconstrained_variable_ids |-> <<>>],
        contradictions,
        [variable_count |-> 0, local_equation_count |-> 0,
         global_equation_count |-> 0, component_count |-> 0,
         max_component_variables |-> 0, contradiction_count |-> 0],
        FALSE)

empty_output(contradictions) ==
    ConstraintBuildOutput(
        [variables |-> <<>>, equations |-> <<>>, components |-> <<>>,
         unconstrained_variable_ids |-> <<>>],
        contradictions,
        [variable_count |-> 0, local_equation_count |-> 0,
         global_equation_count |-> 0, component_count |-> 0,
         max_component_variables |-> 0,
         contradiction_count |-> Len(contradictions)],
        FALSE)

----------------------------------------------------------------------------
(* build_constraints: validation.                                          *)

\* The shape test at the head of build_constraints.
shape_mismatch(o) ==
    LET expected == <<o.size[1], o.size[2]>> IN
    o.rdim # expected \/ o.fdim # expected

\* The mine-count test: Some(contradiction) when the count exceeds the cells.
mine_count_check(o) ==
    IF is_some(o.mine_count)
    THEN LET mine_count == unwrap(o.mine_count)
             max_cells == mult(o.size[1], o.size[2])
         IN IF mine_count > max_cells
            THEN Some(InvalidMineCount(mine_count, max_cells))
            ELSE None
    ELSE None

----------------------------------------------------------------------------
(* build_constraints: the scan order and the variable enumeration.         *)

\* The coordinates visited by "for x in 0..x_end { for y in 0..y_end".
RECURSIVE scan_from(_, _, _)
scan_from(size, x, y) ==
    IF x >= size[1] THEN <<>>
    ELSE IF y >= size[2] THEN scan_from(size, x + 1, 0)
    ELSE <<(<<x, y>>)>> \o scan_from(size, x, y + 1)

\* Variant of scan_order: y in the outer loop, x in the inner loop.
RECURSIVE scan_y_outer_from(_, _, _)
scan_y_outer_from(size, x, y) ==
    IF y >= size[2] THEN <<>>
    ELSE IF x >= size[1] THEN scan_y_outer_from(size, 0, y + 1)
    ELSE <<(<<x, y>>)>> \o scan_y_outer_from(size, x + 1, y)

scan_order_y_outer(size) == scan_y_outer_from(size, 0, 0)

scan_order(size) == scan_from(size, 0, 0)

\* Variant of enumerate_variables: the test "revealed[coords].is_none()" is
\* left out, every cell becomes a variable.
RECURSIVE enumerate_variables_all_cells(_, _, _, _, _)
enumerate_variables_all_cells(o, scan, i, variables, variable_ids) ==
    IF i > Len(scan) THEN [variables |-> variables, variable_ids |-> variable_ids]
    ELSE enumerate_variables_all_cells(o, scan, i + 1,
             Append(variables,
                    ConstraintVariable(Len(variables), scan[i], o.flags[scan[i]])),
             [variable_ids EXCEPT ![scan[i]] = Some(Len(variables))])

\* Variant of enumerate_variables: a flagged hidden cell gets no variable.
RECURSIVE enumerate_variables_skip_flagged(_, _, _, _, _)
enumerate_variables_skip_flagged(o, scan, i, variables, variable_ids) ==
    IF i > Len(scan) THEN [variables |-> variables, variable_ids |-> variable_ids]
    ELSE IF is_none(o.revealed[scan[i]]) /\ ~o.flags[scan[i]]
    THEN enumerate_variables_skip_flagged(o, scan, i + 1,
             Append(variables,
                    ConstraintVariable(Len(variables), scan[i], o.flags[scan[i]])),
             [variable_ids EXCEPT ![scan[i]] = Some(Len(variables))])
    ELSE enumerate_variables_skip_flagged(o, scan, i + 1, variables, variable_ids)

\* The first pair of loops: [variables, variable_ids] after visiting
\* scan[i..].
RECURSIVE enumerate_variables(_, _, _, _, _)
enumerate_variables(o, scan, i, variables, variable_ids) ==
    IF i > Len(scan) THEN [variables |-> variables, variable_ids |-> variable_ids]
    ELSE LET coords == scan[i] IN
         IF is_none(o.revealed[coords])
         THEN LET id == Len(variables) IN
              enumerate_variables(o, scan, i + 1,
                  Append(variables, ConstraintVariable(id, coords, o.flags[coords])),
                  [variable_ids EXCEPT ![coords] = Some(id)])
         ELSE enumerate_variables(o, scan, i + 1, variables, variable_ids)

----------------------------------------------------------------------------
(* build_constraints: local clue equations.                                *)

\* Variant of strict_flagged: "&& flagged" is left out.
strict_flagged_ignores_flag(c, flagged) == c.flag_semantics = "Strict"

\* Variant of strict_flagged: the flag is trusted under both semantics.
strict_flagged_any_semantics(c, flagged) == flagged

\* "matches!(cfg.flag_semantics, FlagSemantics::Strict) && flagged"
strict_flagged(c, flagged) == c.flag_semantics = "Strict" /\ flagged

\* Variant of infeasible: a target equal to the number of variables is refused.
infeasible_when_equal(target_mines, equation_vars) ==
    target_mines < 0 \/ target_mines >= Len(equation_vars)

\* Variant of infeasible: only a negative target is refused.
infeasible_only_negative(target_mines, equation_vars) == target_mines < 0

\* "target_mines < 0 || (target_mines as usize) > equation_vars.len()"
infeasible(target_mines, equation_vars) ==
    target_mines < 0 \/ target_mines > Len(equation_vars)

\* Variant of next_equation_id: the length after the push.
next_equation_id_after_push(equations) == Len(equations) + 1

\* "id: equations.len()"
next_equation_id(equations) == Len(equations)

\* Variant of scan_neighbors: a trusted flag is subtracted from the target
\* and kept among the variables.
RECURSIVE scan_neighbors_keeps_flagged(_, _, _, _, _, _, _)
scan_neighbors_keeps_flagged(o, c, variable_ids, nbrs, i, target_mines, equation_vars) ==
    IF i > Len(nbrs)
    THEN [target_mines |-> target_mines, equation_vars |-> equation_vars,
          panic |-> FALSE]
    ELSE IF is_some(o.revealed[nbrs[i]])
    THEN scan_neighbors_keeps_flagged(o, c, variable_ids, nbrs, i + 1, target_mines,
                                      equation_vars)
    ELSE IF is_none(variable_ids[nbrs[i]])
    THEN [target_mines |-> target_mines, equation_vars |-> equation_vars,
          panic |-> TRUE]
    ELSE scan_neighbors_keeps_flagged(
             o, c, variable_ids, nbrs, i + 1,
             IF strict_flagged(c, o.flags[nbrs[i]]) THEN target_mines - 1
             ELSE target_mines,
             Append(equation_vars, unwrap(variable_ids[nbrs[i]])))

\* The loop over the neighbours of one clue, from nbrs[i] on.
RECURSIVE scan_neighbors(_, _, _, _, _, _, _)
scan_neighbors(o, c, variable_ids, nbrs, i, target_mines, equation_vars) ==
    IF i > Len(nbrs)
    THEN [target_mines |-> target_mines, equation_vars |-> equation_vars,
          panic |-> FALSE]
    ELSE LET neighbor == nbrs[i] IN
         IF is_some(o.revealed[neighbor])
         THEN scan_neighbors(o, c, variable_ids, nbrs, i + 1, target_mines,
                             equation_vars)
         ELSE IF is_none(variable_ids[neighbor])
         THEN \* expect("variable id should exist") fails
              [target_mines |-> target_mines, equation_vars |-> equation_vars,
               panic |-> TRUE]
         ELSE LET var_id == unwrap(variable_ids[neighbor])
                  flagged == o.flags[neighbor]
              IN IF strict_flagged(c, flagged)
                 THEN scan_neighbors(o, c, variable_ids, nbrs, i + 1,
                                     target_mines - 1, equation_vars)
                 ELSE scan_neighbors(o, c, variable_ids, nbrs, i + 1,
                                     target_mines, Append(equation_vars, var_id))

\* The second pair of loops, from scan[i] on.
RECURSIVE local_equations(_, _, _, _, _, _, _)
local_equations(o, c, variable_ids, scan, i, equations, contradictions) ==
    IF i > Len(scan)
    THEN [equations |-> equations, contradictions |-> contradictions,
          panic |-> FALSE]
    ELSE LET clue == scan[i] IN
         IF is_none(o.revealed[clue])
         THEN local_equations(o, c, variable_ids, scan, i + 1, equations,
                              contradictions)
         ELSE LET clue_mines == unwrap(o.revealed[clue])
                  r == scan_neighbors(o, c, variable_ids,
                                      iter_neighbors(o.rdim, clue), 1,
                                      clue_mines, <<>>)
              IN IF r.panic
                 THEN [equations |-> equations, contradictions |-> contradictions,
                       panic |-> TRUE]
                 ELSE IF infeasible(r.target_mines, r.equation_vars)
                 THEN local_equations(o, c, variable_ids, scan, i + 1, equations,
                          Append(contradictions,
                                 LocalClueImpossible(clue, r.target_mines,
                                                     Len(r.equation_vars))))
                 ELSE local_equations(o, c, variable_ids, scan, i + 1,
                          Append(equations,
                                 ConstraintEquation(next_equation_id(equations),
                                                    LocalClue(clue),
                                                    r.equation_vars,
                                                    r.target_mines)),
                          contradictions)

----------------------------------------------------------------------------
(* build_constraints: the global mine-count equation.                      *)

\* Variant of uses_mine_count: the usage option is not consulted.
uses_mine_count_always(o, c) == is_some(o.mine_count)

\* "matches!(cfg.mine_count_usage, UseIfKnown)" and "Some(total_mines)"
uses_mine_count(o, c) ==
    c.mine_count_usage = "UseIfKnown" /\ is_some(o.mine_count)

\* Variant of scan_variables: a trusted flag is excluded but not subtracted.
RECURSIVE scan_variables_no_decrement(_, _, _, _, _)
scan_variables_no_decrement(c, variables, i, target_mines, equation_vars) ==
    IF i > Len(variables)
    THEN [target_mines |-> target_mines, equation_vars |-> equation_vars]
    ELSE LET var == variables[i] IN
         IF c.flag_semantics = "Strict" /\ var.flagged
         THEN scan_variables_no_decrement(c, variables, i + 1, target_mines,
                                          equation_vars)
         ELSE scan_variables_no_decrement(c, variables, i + 1, target_mines,
                                          Append(equation_vars, var.id))

\* The loop "for var in &variables", from variables[i] on.
RECURSIVE scan_variables(_, _, _, _, _)
scan_variables(c, variables, i, target_mines, equation_vars) ==
    IF i > Len(variables)
    THEN [target_mines |-> target_mines, equation_vars |-> equation_vars]
    ELSE LET var == variables[i] IN
         IF strict_flagged(c, var.flagged)
         THEN scan_variables(c, variables, i + 1, target_mines - 1, equation_vars)
         ELSE scan_variables(c, variables, i + 1, target_mines,
                             Append(equation_vars, var.id))

\* The block guarded by mine_count_usage: equations and contradictions after it.
global_equation(o, c, variables, equations, contradictions) ==
    IF uses_mine_count(o, c)
    THEN LET total_mines == unwrap(o.mine_count)
             r == scan_variables(c, variables, 1, total_mines, <<>>)
         IN IF infeasible(r.target_mines, r.equation_vars)
            THEN [equations |-> equations,
                  contradictions |->
                      Append(contradictions,
                             GlobalMineCountImpossible(r.target_mines,
                                                       Len(r.equation_vars))),
                  global_equation_count |-> 0]
            ELSE [equations |->
                      Append(equations,
                             ConstraintEquation(next_equation_id(equations),
                                                GlobalMineCount,
                                                r.equation_vars,
                                                r.target_mines)),
                  contradictions |-> contradictions,
                  global_equation_count |-> 1]
    ELSE [equations |-> equations, contradictions |-> contradictions,
          global_equation_count |-> 0]

----------------------------------------------------------------------------
(* Dsu: union-find with path compression and union by rank.                *)

Dsu_new(size) ==
    [parent |-> [i \in 0 .. size - 1 |-> i], rank |-> [i \in 0 .. size - 1 |-> 0]]

\* Variant of Dsu_find: the parent is returned without following the chain.
Dsu_find_one_hop(dsu, value) == [dsu |-> dsu, root |-> dsu.parent[value]]

\* find returns the root and leaves the compressed structure behind.
RECURSIVE Dsu_find(_, _)
Dsu_find(dsu, value) ==
    IF dsu.parent[value] # value
    THEN LET r == Dsu_find(dsu, dsu.parent[value])
             compressed == [r.dsu EXCEPT !.parent[value] = r.root]
         IN [dsu |-> compressed, root |-> compressed.parent[value]]
    ELSE [dsu |-> dsu, root |-> dsu.parent[value]]

\* Variant of Dsu_link: the parent of right_root is left as it was.
Dsu_link_self(dsu, left_root, right_root) ==
    [parent |-> dsu.parent,
     rank |-> IF dsu.rank[left_root] = dsu.rank[right_root]
              THEN [dsu.rank EXCEPT ![left_root] = (@ + 1) % (U8_MAX + 1)]
              ELSE dsu.rank]

\* The tail of union: right_root is hung below left_root, and the rank of
\* left_root grows when both ranks are equal.
Dsu_link(dsu, left_root, right_root) ==
    IF dsu.rank[left_root] = dsu.rank[right_root]
    THEN [dsu EXCEPT !.parent[right_root] = left_root, !.rank[left_root] = @ + 1]
    ELSE [dsu EXCEPT !.parent[right_root] = left_root]

\* union once both roots are found (r is the result of the second find):
\* nothing for equal roots, otherwise the roots are swapped when the left
\* rank is smaller, and linked.
Dsu_union_roots(r, left_root) ==
    IF left_root = r.root THEN r.dsu
    ELSE IF r.dsu.rank[left_root] < r.dsu.rank[r.root]
    THEN Dsu_link(r.dsu, r.root, left_root)
    ELSE Dsu_link(r.dsu, left_root, r.root)

\* union after the first find (l is its result).
Dsu_union_right(l, right) == Dsu_union_roots(Dsu_find(l.dsu, right), l.root)

Dsu_union(dsu, left, right) == Dsu_union_right(Dsu_find(dsu, left), right)

----------------------------------------------------------------------------
(* build_components.                                                       *)

\* Variant of is_local_clue: every equation takes part in the component pass.
is_local_clue_any_kind(equation) == TRUE

\* "matches!(equation.kind, EquationKind::LocalClue { .. })"
is_local_clue(equation) == equation.kind.tag = "LocalClue"

\* Variant of union_rest: "dsu.union(first, var)" is left out.
RECURSIVE union_rest_marks_only(_, _, _, _)
union_rest_marks_only(st, first, rest, i) ==
    IF i > Len(rest) THEN st
    ELSE union_rest_marks_only([st EXCEPT !.touched[rest[i]] = TRUE],
                               first, rest, i + 1)

\* Variant of union_rest: "dsu.union(var, var)" in the place of
\* "dsu.union(first, var)".
RECURSIVE union_rest_joins_itself(_, _, _, _)
union_rest_joins_itself(st, first, rest, i) ==
    IF i > Len(rest) THEN st
    ELSE union_rest_joins_itself(
             [dsu |-> Dsu_union(st.dsu, rest[i], rest[i]),
              touched |-> [st.touched EXCEPT ![rest[i]] = TRUE]],
             first, rest, i + 1)

\* "for &var in rest { touched[var] = true; dsu.union(first, var); }"
RECURSIVE union_rest(_, _, _, _)
union_rest(st, first, rest, i) ==
    IF i > Len(rest) THEN st
    ELSE union_rest([dsu |-> Dsu_union(st.dsu, first, rest[i]),
                     touched |-> [st.touched EXCEPT ![rest[i]] = TRUE]],
                    first, rest, i + 1)

\* Variant of union_equations: "touched[first] = true" is left out.
RECURSIVE union_equations_first_untouched(_, _, _)
union_equations_first_untouched(st, equations, i) ==
    IF i > Len(equations) THEN st
    ELSE LET equation == equations[i] IN
         IF ~is_local_clue(equation)
         THEN union_equations_first_untouched(st, equations, i + 1)
         ELSE IF Len(equation.variable_ids) = 0
         THEN union_equations_first_untouched(st, equations, i + 1)
         ELSE union_equations_first_untouched(
                  union_rest(st, Head(equation.variable_ids),
                             Tail(equation.variable_ids), 1),
                  equations, i + 1)

\* First loop over the equations: st is [dsu, touched].
RECURSIVE union_equations(_, _, _)
union_equations(st, equations, i) ==
    IF i > Len(equations) THEN st
    ELSE LET equation == equations[i] IN
         IF ~is_local_clue(equation) THEN union_equations(st, equations, i + 1)
         ELSE IF Len(equation.variable_ids) = 0
         THEN union_equations(st, equations, i + 1)
         ELSE LET first == Head(equation.variable_ids)
                  rest == Tail(equation.variable_ids)
              IN union_equations(
                     union_rest([st EXCEPT !.touched[first] = TRUE], first, rest, 1),
                     equations, i + 1)

\* Loop "for var in 0..variable_count": st is
\* [dsu, root_to_component, components].
RECURSIVE group_variables(_, _, _, _)

\* "components[component_idx].variable_ids.push(var)", and the next round.
group_push(dsu, root_to_component, components, component_idx, touched, variable_count, var) ==
    group_variables(
        [dsu |-> dsu, root_to_component |-> root_to_component,
         components |->
             [components EXCEPT ![component_idx + 1].variable_ids = Append(@, var)]],
        touched, variable_count, var + 1)

\* "root_to_component.entry(root).or_insert_with(..)" for the root found by f.
group_root(f, st, touched, variable_count, var) ==
    IF f.root \in DOMAIN st.root_to_component
    THEN group_push(f.dsu, st.root_to_component, st.components,
                    st.root_to_component[f.root], touched, variable_count, var)
    ELSE group_push(f.dsu,
                    (f.root :> Len(st.components)) @@ st.root_to_component,
                    Append(st.components, ConstraintComponent(<<>>, <<>>)),
                    Len(st.components), touched, variable_count, var)

\* Variant of group_variables: an untouched variable is grouped under its own
\* root as well.
group_variables_all(st, touched, variable_count, var) ==
    IF var >= variable_count THEN st
    ELSE group_root(Dsu_find(st.dsu, var), st, touched, variable_count, var)

group_variables(st, touched, variable_count, var) ==
    IF var >= variable_count THEN st
    ELSE IF ~touched[var] THEN group_variables(st, touched, variable_count, var + 1)
    ELSE group_root(Dsu_find(st.dsu, var), st, touched, variable_count, var)

\* "for &var in &equation.variable_ids": st is [dsu, roots].
RECURSIVE collect_roots(_, _, _, _)
collect_roots(st, touched, variable_ids, i) ==
    IF i > Len(variable_ids) THEN st
    ELSE IF touched[variable_ids[i]]
    THEN LET f == Dsu_find(st.dsu, variable_ids[i]) IN
         collect_roots([dsu |-> f.dsu, roots |-> st.roots \cup {f.root}],
                       touched, variable_ids, i + 1)
    ELSE collect_roots(st, touched, variable_ids, i + 1)

\* Variant of attach_to_roots: the equation is pushed to every component.
attach_to_roots_all(components, root_to_component, roots, equation_id) ==
    [k \in 1 .. Len(components) |->
        [components[k] EXCEPT !.equation_ids = Append(@, equation_id)]]

\* "for root in roots": a BTreeSet iterates in ascending order.
RECURSIVE attach_to_roots(_, _, _, _)
attach_to_roots(components, root_to_component, roots, equation_id) ==
    IF roots = {} THEN components
    ELSE LET root == CHOOSE r \in roots : \A q \in roots : r <= q
             attached ==
                 IF root \in DOMAIN root_to_component
                 THEN [components EXCEPT
                           ![root_to_component[root] + 1].equation_ids =
                               Append(@, equation_id)]
                 ELSE components
         IN attach_to_roots(attached, root_to_component, roots \ {root}, equation_id)

\* Second loop over the equations: st is [dsu, components].
RECURSIVE attach_equations(_, _, _, _, _)
attach_equations(st, touched, root_to_component, equations, i) ==
    IF i > Len(equations) THEN st
    ELSE LET equation == equations[i] IN
         IF ~is_local_clue(equation)
         THEN attach_equations(st, touched, root_to_component, equations, i + 1)
         ELSE LET r == collect_roots([dsu |-> st.dsu, roots |-> {}], touched,
                                     equation.variable_ids, 1)
              IN attach_equations(
                     [dsu |-> r.dsu,
                      components |-> attach_to_roots(st.components, root_to_component,
                                                     r.roots, equation.id)],
                     touched, root_to_component, equations, i + 1)

\* sort_unstable on integers: ascending order (insertion of s[i..] into acc).
RECURSIVE insert_sorted(_, _)
insert_sorted(acc, v) ==
    IF acc = <<>> THEN <<v>>
    ELSE IF v < Head(acc) THEN <<v>> \o acc
    ELSE <<Head(acc)>> \o insert_sorted(Tail(acc), v)

RECURSIVE sort_unstable(_)
sort_unstable(s) ==
    IF s = <<>> THEN <<>>
    ELSE insert_sorted(sort_unstable(Tail(s)), Head(s))

\* Vec::dedup: removes consecutive repeated elements.
RECURSIVE dedup(_)
dedup(s) ==
    IF Len(s) <= 1 THEN s
    ELSE IF s[1] = s[2] THEN dedup(Tail(s))
    ELSE <<s[1]>> \o dedup(Tail(s))

\* Variant of normalize_component: the equation ids are left as pushed, with
\* the newest first.
normalize_component_newest_first(component) ==
    ConstraintComponent(sort_unstable(component.variable_ids),
                        [j \in 1 .. Len(component.equation_ids) |->
                            component.equation_ids[Len(component.equation_ids) + 1 - j]])

\* "for component in &mut components { sort; sort; dedup }"
normalize_component(component) ==
    ConstraintComponent(sort_unstable(component.variable_ids),
                        dedup(sort_unstable(component.equation_ids)))

\* Variant of collect_unconstrained: the test of was_touched is inverted.
RECURSIVE collect_unconstrained_touched(_, _, _)
collect_unconstrained_touched(touched, variable_count, var_id) ==
    IF var_id >= variable_count THEN <<>>
    ELSE IF touched[var_id]
    THEN <<var_id>> \o collect_unconstrained_touched(touched, variable_count, var_id + 1)
    ELSE collect_unconstrained_touched(touched, variable_count, var_id + 1)

\* "for (var_id, was_touched) in touched.into_iter().enumerate()"
RECURSIVE collect_unconstrained(_, _, _)
collect_unconstrained(touched, variable_count, var_id) ==
    IF var_id >= variable_count THEN <<>>
    ELSE IF ~touched[var_id]
    THEN <<var_id>> \o collect_unconstrained(touched, variable_count, var_id + 1)
    ELSE collect_unconstrained(touched, variable_count, var_id + 1)

\* The end of build_components: sorted components and unconstrained ids.
finish_components(components, touched, variable_count) ==
    [components |->
         [k \in 1 .. Len(components) |-> normalize_component(components[k])],
     unconstrained_variable_ids |->
         collect_unconstrained(touched, variable_count, 0)]

\* build_components after the grouping loop.
attach_and_finish(grouped, touched, variable_count, equations) ==
    finish_components(
        attach_equations([dsu |-> grouped.dsu, components |-> grouped.components],
                         touched, grouped.root_to_component, equations,
                         1).components,
        touched, variable_count)

\* build_components after the union loop.
group_and_finish(unioned, variable_count, equations) ==
    attach_and_finish(
        group_variables([dsu |-> unioned.dsu, root_to_component |-> <<>>,
                         components |-> <<>>],
                        unioned.touched, variable_count, 0),
        unioned.touched, variable_count, equations)

build_components(variable_count, equations) ==
    group_and_finish(
        union_equations([dsu |-> Dsu_new(variable_count),
                         touched |-> [v \in 0 .. variable_count - 1 |-> FALSE]],
                        equations, 1),
        variable_count, equations)

----------------------------------------------------------------------------
(* build_constraints.                                                      *)

\* "components.iter().map(|c| c.variable_ids.len()).max().unwrap_or(0)"
max_component_variables(components) ==
    IF components = <<>> THEN 0
    ELSE LET sizes == {Len(components[k].variable_ids) : k \in 1 .. Len(components)}
         IN CHOOSE m \in sizes : \A n \in sizes : n <= m

\* The end of build_constraints: problem, stats and output (bc is the result
\* of build_components).
assemble_output(variables, equations, contradictions, local_equation_count, global_equation_count, bc) ==
    ConstraintBuildOutput(
        [variables |-> variables, equations |-> equations,
         components |-> bc.components,
         unconstrained_variable_ids |-> bc.unconstrained_variable_ids],
        contradictions,
        [variable_count |-> Len(variables),
         local_equation_count |-> local_equation_count,
         global_equation_count |-> global_equation_count,
         component_count |-> Len(bc.components),
         max_component_variables |-> max_component_variables(bc.components),
         contradiction_count |-> Len(contradictions)],
        FALSE)

\* Variant of build_after_global: local_equation_count is read after the
\* global block, so it counts the global equation too.
build_after_global_counts_all(variables, local_equation_count, ge) ==
    assemble_output(variables, ge.equations, ge.contradictions,
                    Len(ge.equations), ge.global_equation_count,
                    build_components(Len(variables), ge.equations))

\* build_constraints after the global block (ge is its result).
build_after_global(variables, local_equation_count, ge) ==
    assemble_output(variables, ge.equations, ge.contradictions,
                    local_equation_count, ge.global_equation_count,
                    build_components(Len(variables), ge.equations))

\* build_constraints after the local loops (le is their result); a failed
\* expect unwinds the call.
build_after_local(o, c, variables, le) ==
    IF le.panic
    THEN [empty_output(<<>>) EXCEPT !.panic = TRUE]
    ELSE build_after_global(
             variables, Len(le.equations),
             global_equation(o, c, variables, le.equations, le.contradictions))

\* build_constraints after the variable enumeration (ev is its result).
build_after_variables(o, c, scan, ev) ==
    build_after_local(
        o, c, ev.variables,
        local_equations(o, c, ev.variable_ids, scan, 1, <<>>, <<>>))

\* The part of build_constraints after the two validations.
build_valid(o, c) ==
    build_after_variables(
        o, c, scan_order(o.size),
        enumerate_variables(o, scan_order(o.size), 1, <<>>, from_elem(o.size, None)))

\* Variant of build_constraints: the mine count is validated before the shape.
build_constraints_count_first(o, c) ==
    IF is_some(mine_count_check(o))
    THEN empty_output(<<unwrap(mine_count_check(o))>>)
    ELSE IF shape_mismatch(o)
    THEN empty_output(<<InvalidObservationShape>>)
    ELSE build_valid(o, c)

build_constraints(o, c) ==
    IF shape_mismatch(o)
    THEN empty_output(<<InvalidObservationShape>>)
    ELSE IF is_some(mine_count_check(o))
    THEN empty_output(<<unwrap(mine_count_check(o))>>)
    ELSE build_valid(o, c)

----------------------------------------------------------------------------
(* The inputs explored, and the state machine: one call of                 *)
(* build_constraints on an observation.                                    *)

Shapes == {s \in (0 .. MaxCells) \X (0 .. MaxCells) : s[1] * s[2] <= MaxCells}

MineCounts == {None} \cup {Some(m) : m \in 0 .. MaxMines}

RevealedCells == {None} \cup {Some(v) : v \in 0 .. MaxClue}

\* The flags grids explored with a revealed grid r: any set of flagged hidden
\* cells with no revealed cell flagged, and the grid in which exactly the
\* revealed cells are flagged.
FlagGrids(s, r) ==
    LET hidden == {c \in nd_index(s) : is_none(r[c])} IN
    {[c \in nd_index(s) |-> c \in h] : h \in SUBSET hidden}
        \cup {[c \in nd_index(s) |-> c \notin hidden]}

\* Dimensions a grid may wrongly have on a board of size s.
WrongDims(s) == {<<s[2], s[1]>>, <<s[1] + 1, s[2]>>, <<s[1], s[2] + 1>>} \ {s}

(* The mine layout.  Its type is declared outside the files modelled here;  *)
(* it is modelled from its uses in engine.rs and generator/random.rs: a     *)
(* mask of the mined cells and their number.                               *)

MineLayout(size, mine_mask, mine_count) ==
    [size |-> size, mine_mask |-> mine_mask, mine_count |-> mine_count]

\* MineLayout::from_mine_coords for coordinates inside size.
from_mine_coords(size, mines) ==
    MineLayout(size, [c \in nd_index(size) |-> c \in mines], Cardinality(mines))

\* MineLayout::validate_coords
validate_coords(layout, coords) ==
    IF coords[1] < layout.size[1] /\ coords[2] < layout.size[2]
    THEN Ok(coords) ELSE Err("InvalidCoords")

\* MineLayout::contains_mine and the index operator.
contains_mine(layout, coords) == layout.mine_mask[coords]

\* MineLayout::iter_neighbors
layout_iter_neighbors(layout, coords) == iter_neighbors(layout.size, coords)

\* MineLayout::adjacent_mine_count
adjacent_mine_count(layout, coords) ==
    Len(SelectSeq(layout_iter_neighbors(layout, coords),
                  LAMBDA pos : contains_mine(layout, pos)))

\* MineLayout::safe_cell_count
safe_cell_count(layout) == mult(layout.size[1], layout.size[2]) - layout.mine_count

----------------------------------------------------------------------------
(* The play engine.                                                        *)

\* EngineCell
Hidden == [tag |-> "Hidden"]

Revealed(count) == [tag |-> "Revealed", count |-> count]

Flagged == [tag |-> "Flagged"]

is_unrevealed(cell) == cell.tag \in {"Hidden", "Flagged"}

\* Saturating<CellCount>: "+= 1" and "-= 1"
saturating_inc(n) == IF n >= U16_MAX THEN U16_MAX ELSE n + 1

saturating_dec(n) == IF n <= 0 THEN 0 ELSE n - 1

\* PlayEngine::new
PlayEngine_new(mine_layout) ==
    [mine_layout |-> mine_layout,
     board |-> from_elem(mine_layout.size, Hidden),
     revealed_count |-> 0,
     flagged_count |-> 0,
     state |-> "Ready",
     triggered_mine |-> None]

is_finished(state) == state \in {"Won", "Lost"}

\* Variant of check_active: any game not finished passes.
check_active_not_finished(e) == IF is_finished(e.state) THEN Err("AlreadyEnded") ELSE Ok(<<>>)

check_active(e) == IF e.state = "Active" THEN Ok(<<>>) ELSE Err("AlreadyEnded")

\* Variant of check_not_finished: only a lost game is refused.
check_not_finished_lost_only(e) == IF e.state = "Lost" THEN Err("AlreadyEnded") ELSE Ok(<<>>)

check_not_finished(e) == IF is_finished(e.state) THEN Err("AlreadyEnded") ELSE Ok(<<>>)

mark_started(e) == IF e.state = "Ready" THEN [e EXCEPT !.state = "Active"] ELSE e

\* Variant of end_game: triggered_mine is cleared whenever the game ends.
end_game_clears_trigger(e, won) ==
    IF is_finished(e.state) THEN e
    ELSE [e EXCEPT !.state = IF won THEN "Won" ELSE "Lost", !.triggered_mine = None]

end_game(e, won) ==
    IF is_finished(e.state) THEN e
    ELSE IF won THEN [e EXCEPT !.state = "Won", !.triggered_mine = None]
    ELSE [e EXCEPT !.state = "Lost"]

mine_layout_iter_neighbors(e, coords) == layout_iter_neighbors(e.mine_layout, coords)

count_flagged_neighbors(e, coords) ==
    Len(SelectSeq(mine_layout_iter_neighbors(e, coords),
                  LAMBDA pos : e.board[pos] = Flagged))

count_unrevealed_neighbors(e, coords) ==
    Len(SelectSeq(mine_layout_iter_neighbors(e, coords),
                  LAMBDA pos : is_unrevealed(e.board[pos])))

\* What a call returns: the engine afterwards and the Result.
Returned(e, result) == [engine |-> e, result |-> result]

\* What reveal_single_cell returns: the engine afterwards and the outcome.
Outcome(e, outcome) == [engine |-> e, outcome |-> outcome]

\* "self.board[..] = EngineCell::Revealed(n); self.revealed_count += 1"
set_revealed(e, coords, n) ==
    [e EXCEPT !.board[coords] = Revealed(n),
              !.revealed_count = saturating_inc(e.revealed_count)]

\* The Hidden neighbours of coords, in the iterator's order.
hidden_neighbors(e, coords) ==
    SelectSeq(mine_layout_iter_neighbors(e, coords), LAMBDA pos : e.board[pos] = Hidden)

\* The loop "while let Some(visit_coords) = to_visit.pop_front()".
RECURSIVE flood(_, _, _)

\* Variant of flood_reveal: every revealed cell queues its Hidden neighbours,
\* whatever its count.
flood_reveal_any_count(e, visited, rest, visit, n) ==
    flood(e, visited,
          rest \o SelectSeq(hidden_neighbors(e, visit),
                            LAMBDA pos : pos \notin visited))

\* The end of a visit: e has the cell visit revealed with its count n, and a
\* zero cell queues its Hidden neighbours not yet visited.
flood_reveal(e, visited, rest, visit, n) ==
    IF n = 0
    THEN flood(e, visited,
               rest \o SelectSeq(hidden_neighbors(e, visit),
                                 LAMBDA pos : pos \notin visited))
    ELSE flood(e, visited, rest)

flood(e, visited, to_visit) ==
    IF to_visit = <<>> THEN e
    ELSE IF Head(to_visit) \in visited THEN flood(e, visited, Tail(to_visit))
    ELSE IF e.board[Head(to_visit)].tag \in {"Revealed", "Flagged"}
    THEN flood(e, visited \cup {Head(to_visit)}, Tail(to_visit))
    ELSE flood_reveal(
             set_revealed(e, Head(to_visit),
                          adjacent_mine_count(e.mine_layout, Head(to_visit))),
             visited \cup {Head(to_visit)}, Tail(to_visit), Head(to_visit),
             adjacent_mine_count(e.mine_layout, Head(to_visit)))

\* Variant of reveal_finish: the win test counts every cell of the board.
reveal_finish_counts_mines(e) ==
    IF e.revealed_count = mult(e.mine_layout.size[1], e.mine_layout.size[2])
    THEN Outcome(end_game(e, TRUE), "Won")
    ELSE Outcome(mark_started(e), "Revealed")

\* The end of reveal_single_cell on a safe cell: the win test.
reveal_finish(e) ==
    IF e.revealed_count = safe_cell_count(e.mine_layout)
    THEN Outcome(end_game(e, TRUE), "Won")
    ELSE Outcome(mark_started(e), "Revealed")

\* reveal_single_cell on a Hidden safe cell with adjacent_mines mines around;
\* e has the cell revealed already.
reveal_safe(e, coords, adjacent_mines) ==
    IF adjacent_mines = 0
    THEN reveal_finish(flood(e, {coords}, hidden_neighbors(e, coords)))
    ELSE reveal_finish(e)

\* Variant of reveal_single_cell: a mine hit ends the game without recording
\* the mine.
reveal_single_cell_forgets_trigger(e, coords) ==
    IF e.board[coords] = Hidden /\ e.mine_layout.mine_mask[coords]
    THEN Outcome(end_game(e, FALSE), "HitMine")
    ELSE IF e.board[coords] = Hidden
    THEN reveal_safe(set_revealed(e, coords, adjacent_mine_count(e.mine_layout, coords)),
                     coords, adjacent_mine_count(e.mine_layout, coords))
    ELSE Outcome(e, "NoChange")

reveal_single_cell(e, coords) ==
    IF e.board[coords] = Hidden /\ e.mine_layout.mine_mask[coords]
    THEN Outcome(end_game([e EXCEPT !.triggered_mine = Some(coords)], FALSE), "HitMine")
    ELSE IF e.board[coords] = Hidden
    THEN reveal_safe(set_revealed(e, coords, adjacent_mine_count(e.mine_layout, coords)),
                     coords, adjacent_mine_count(e.mine_layout, coords))
    ELSE Outcome(e, "NoChange")

\* Variant of toggle_flag: taking a flag off leaves flagged_count as it is.
toggle_flag_keeps_count(e, coords) ==
    IF validate_coords(e.mine_layout, coords).tag = "Err"
    THEN Returned(e, validate_coords(e.mine_layout, coords))
    ELSE IF check_active(e).tag = "Err" THEN Returned(e, check_active(e))
    ELSE IF e.board[coords] = Hidden
    THEN Returned([e EXCEPT !.board[coords] = Flagged,
                            !.flagged_count = saturating_inc(e.flagged_count)],
                  Ok("Changed"))
    ELSE IF e.board[coords] = Flagged
    THEN Returned([e EXCEPT !.board[coords] = Hidden], Ok("Changed"))
    ELSE Returned(e, Ok("NoChange"))

\* PlayEngine::toggle_flag
toggle_flag(e, coords) ==
    IF validate_coords(e.mine_layout, coords).tag = "Err"
    THEN Returned(e, validate_coords(e.mine_layout, coords))
    ELSE IF check_active(e).tag = "Err" THEN Returned(e, check_active(e))
    ELSE IF e.board[coords] = Hidden
    THEN Returned([e EXCEPT !.board[coords] = Flagged,
                            !.flagged_count = saturating_inc(e.flagged_count)],
                  Ok("Changed"))
    ELSE IF e.board[coords] = Flagged
    THEN Returned([e EXCEPT !.board[coords] = Hidden,
                            !.flagged_count = saturating_dec(e.flagged_count)],
                  Ok("Changed"))
    ELSE Returned(e, Ok("NoChange"))

\* The loop of chord_flag over the neighbours nbrs[i..].
RECURSIVE chord_flag_loop(_, _, _, _)
chord_flag_loop(e, nbrs, i, updated) ==
    IF i > Len(nbrs) THEN Returned(e, Ok(IF updated THEN "Changed" ELSE "NoChange"))
    ELSE IF e.board[nbrs[i]] = Hidden
    THEN chord_flag_loop([e EXCEPT !.board[nbrs[i]] = Flagged,
                                   !.flagged_count = saturating_inc(e.flagged_count)],
                         nbrs, i + 1, TRUE)
    ELSE chord_flag_loop(e, nbrs, i + 1, updated)

\* Variant of chord_flag: the clue is compared with the Flagged neighbours.
chord_flag_counts_flagged(e, coords) ==
    IF validate_coords(e.mine_layout, coords).tag = "Err"
    THEN Returned(e, validate_coords(e.mine_layout, coords))
    ELSE IF check_active(e).tag = "Err" THEN Returned(e, check_active(e))
    ELSE IF e.board[coords].tag # "Revealed" THEN Returned(e, Ok("NoChange"))
    ELSE IF e.board[coords].count # count_flagged_neighbors(e, coords)
    THEN Returned(e, Ok("NoChange"))
    ELSE chord_flag_loop(e, mine_layout_iter_neighbors(e, coords), 1, FALSE)

\* PlayEngine::chord_flag
chord_flag(e, coords) ==
    IF validate_coords(e.mine_layout, coords).tag = "Err"
    THEN Returned(e, validate_coords(e.mine_layout, coords))
    ELSE IF check_active(e).tag = "Err" THEN Returned(e, check_active(e))
    ELSE IF e.board[coords].tag # "Revealed" THEN Returned(e, Ok("NoChange"))
    ELSE IF e.board[coords].count # count_unrevealed_neighbors(e, coords)
    THEN Returned(e, Ok("NoChange"))
    ELSE chord_flag_loop(e, mine_layout_iter_neighbors(e, coords), 1, FALSE)

\* PlayEngine::reveal
reveal(e, coords) ==
    IF validate_coords(e.mine_layout, coords).tag = "Err"
    THEN Returned(e, validate_coords(e.mine_layout, coords))
    ELSE IF e.board[coords] # Hidden THEN Returned(e, Ok("NoChange"))
    ELSE IF check_not_finished(e).tag = "Err" THEN Returned(e, check_not_finished(e))
    ELSE Returned(reveal_single_cell(e, coords).engine,
                  Ok(reveal_single_cell(e, coords).outcome))

\* BitOr for RevealOutcome: the merge of two outcomes, HitMine before Won
\* before Revealed before NoChange.
bitor(a, b) ==
    IF "HitMine" \in {a, b} THEN "HitMine"
    ELSE IF "Won" \in {a, b} THEN "Won"
    ELSE IF "Revealed" \in {a, b} THEN "Revealed"
    ELSE "NoChange"

\* ".map(|n| self.reveal_single_cell(n)).reduce(BitOr::bitor)
\*  .unwrap_or(RevealOutcome::NoChange)" over the neighbours nbrs[i..]; acc is
\* the merged outcome so far, None before the first neighbour.
RECURSIVE chord_reveal_fold(_, _, _, _)

\* Variant of chord_reveal_merge: the neighbours after a mine hit are skipped.
chord_reveal_merge_stops_at_mine(r, nbrs, i, acc) ==
    IF r.outcome = "HitMine" THEN Returned(r.engine, Ok("HitMine"))
    ELSE chord_reveal_fold(r.engine, nbrs, i + 1,
                           IF is_none(acc) THEN Some(r.outcome)
                           ELSE Some(bitor(unwrap(acc), r.outcome)))

chord_reveal_merge(r, nbrs, i, acc) ==
    chord_reveal_fold(r.engine, nbrs, i + 1,
                      IF is_none(acc) THEN Some(r.outcome)
                      ELSE Some(bitor(unwrap(acc), r.outcome)))

chord_reveal_fold(e, nbrs, i, acc) ==
    IF i > Len(nbrs)
    THEN Returned(e, Ok(IF is_none(acc) THEN "NoChange" ELSE unwrap(acc)))
    ELSE chord_reveal_merge(reveal_single_cell(e, nbrs[i]), nbrs, i, acc)

\* PlayEngine::chord_reveal
chord_reveal(e, coords) ==
    IF validate_coords(e.mine_layout, coords).tag = "Err"
    THEN Returned(e, validate_coords(e.mine_layout, coords))
    ELSE IF check_not_finished(e).tag = "Err" THEN Returned(e, check_not_finished(e))
    ELSE IF e.board[coords].tag = "Revealed"
            /\ e.board[coords].count = count_flagged_neighbors(e, coords)
    THEN IF check_active(e).tag = "Err" THEN Returned(e, check_active(e))
         ELSE chord_reveal_fold(e, mine_layout_iter_neighbors(e, coords), 1, None)
    ELSE Returned(reveal_single_cell(e, coords).engine,
                  Ok(reveal_single_cell(e, coords).outcome))

\* Variant of from_engine_with_mine_count: the flags grid is allocated with
\* its two dimensions exchanged.
from_engine_with_mine_count_transposed_flags(e, mine_count) ==
    Observation(e.mine_layout.size, mine_count,
                e.mine_layout.size,
                [c \in nd_index(e.mine_layout.size) |->
                    IF e.board[c].tag = "Revealed" THEN Some(e.board[c].count) ELSE None],
                <<e.mine_layout.size[2], e.mine_layout.size[1]>>,
                [c \in nd_index(<<e.mine_layout.size[2], e.mine_layout.size[1]>>) |->
                    e.board[<<c[2], c[1]>>] = Flagged])

\* Observation::from_engine_with_mine_count
from_engine_with_mine_count(e, mine_count) ==
    Observation(e.mine_layout.size, mine_count,
                e.mine_layout.size,
                [c \in nd_index(e.mine_layout.size) |->
                    IF e.board[c].tag = "Revealed" THEN Some(e.board[c].count) ELSE None],
                e.mine_layout.size,
                [c \in nd_index(e.mine_layout.size) |-> e.board[c] = Flagged])

\* Observation::from_engine
from_engine(e) == from_engine_with_mine_count(e, Some(e.mine_layout.mine_count))

----------------------------------------------------------------------------
(* The game of lib.rs: Minefield, Game and its moves.  Tiles are AnyTile;   *)
(* iter_adjacent is the neighbour iterator over the minefield's size.      *)

\* AnyTile: Closed, Flag, Question, Exploded, Mine, IncorrectFlag and Open(n).
Tile(tag) == [tag |-> tag]

Open(count) == [tag |-> "Open", count |-> count]

\* Minefield::validate_coords
Minefield_validate_coords(minefield, coords) ==
    IF coords[1] < minefield.size[1] /\ coords[2] < minefield.size[2]
    THEN Ok(coords) ELSE Err("InvalidCoords")

\* Minefield::safe_count: "self.total_tiles() - self.count" on u16.  With
\* count above the number of tiles the subtraction overflows: a build with
\* overflow checks panics (None), a build without them wraps.
safe_count(minefield, overflow_checks) ==
    IF minefield.count <= Cardinality(DOMAIN minefield.mines)
    THEN Some(Cardinality(DOMAIN minefield.mines) - minefield.count)
    ELSE IF overflow_checks THEN None
    ELSE Some((Cardinality(DOMAIN minefield.mines) + U16_MAX + 1 - minefield.count)
                  % (U16_MAX + 1))

\* Minefield::get_count
get_count(minefield, coords) ==
    Len(SelectSeq(iter_neighbors(minefield.size, coords),
                  LAMBDA pos : minefield.mines[pos]))

\* BitOr for OpenOutcome
OpenOutcome_bitor(a, b) ==
    IF a = "Explode" \/ b = "Explode" THEN "Explode"
    ELSE IF a = "Win" \/ b = "Win" THEN "Win"
    ELSE IF a = "Safe" \/ b = "Safe" THEN "Safe"
    ELSE "NoChange"

\* GameState::is_final
is_final(state) == state \in {"Win", "Lose", "InstantWin", "InstantLoss"}

\* Game::new
Game_new(minefield) ==
    [minefield |-> minefield,
     grid |-> from_elem(minefield.size, Tile("Closed")),
     open_count |-> 0,
     flag_count |-> 0,
     state |-> "NotStarted",
     started_at |-> None,
     ended_at |-> None]

\* Game::check_in_progress
check_in_progress(g) == IF g.state = "InProgress" THEN Ok(<<>>) ELSE Err("AlreadyEnded")

\* Variant of check_final: only a game won counts as ended.
check_final_won_only(g) ==
    IF g.state \in {"Win", "InstantWin"} THEN Err("AlreadyEnded") ELSE Ok(<<>>)

\* Game::check_final
check_final(g) == IF is_final(g.state) THEN Err("AlreadyEnded") ELSE Ok(<<>>)

\* Game::do_flag_question
do_flag_question(g, coords, use_question) ==
    IF Minefield_validate_coords(g.minefield, coords).tag = "Err"
    THEN Returned(g, Minefield_validate_coords(g.minefield, coords))
    ELSE IF check_in_progress(g).tag = "Err" THEN Returned(g, check_in_progress(g))
    ELSE IF g.grid[coords] = Tile("Closed")
    THEN Returned([g EXCEPT !.grid[coords] = Tile("Flag"),
                            !.flag_count = saturating_inc(g.flag_count)],
                  Ok("MarkChanged"))
    ELSE IF g.grid[coords] = Tile("Flag")
    THEN Returned([g EXCEPT !.grid[coords] =
                                IF use_question THEN Tile("Question") ELSE Tile("Closed"),
                            !.flag_count = saturating_dec(g.flag_count)],
                  Ok("MarkChanged"))
    ELSE IF g.grid[coords] = Tile("Question")
    THEN Returned([g EXCEPT !.grid[coords] = Tile("Closed")], Ok("MarkChanged"))
    ELSE Returned(g, Ok("NoChange"))

\* Game::count_flagged
count_flagged(g, coords) ==
    Len(SelectSeq(iter_neighbors(g.minefield.size, coords),
                  LAMBDA pos : g.grid[pos] = Tile("Flag")))

\* Game::count_closed
count_closed(g, coords) ==
    Len(SelectSeq(iter_neighbors(g.minefield.size, coords),
                  LAMBDA pos : g.grid[pos].tag # "Open"))

\* Game::has_adjacent_question
has_adjacent_question(g, coords) ==
    \E i \in 1 .. Len(iter_neighbors(g.minefield.size, coords)) :
        g.grid[iter_neighbors(g.minefield.size, coords)[i]] = Tile("Question")

\* The loop of Game::chord_flag over the neighbours nbrs[i..].
RECURSIVE Game_chord_flag_loop(_, _, _)
Game_chord_flag_loop(g, nbrs, i) ==
    IF i > Len(nbrs) THEN Returned(g, Ok("MarkChanged"))
    ELSE IF g.grid[nbrs[i]].tag \in {"Closed", "Question"}
    THEN Game_chord_flag_loop([g EXCEPT !.grid[nbrs[i]] = Tile("Flag"),
                                        !.flag_count = saturating_inc(g.flag_count)],
                              nbrs, i + 1)
    ELSE Game_chord_flag_loop(g, nbrs, i + 1)

\* Game::chord_flag.  It validates neither the coordinates nor the state:
\* indexing the grid outside the board panics.
Game_chord_flag(g, coords) ==
    IF coords \notin DOMAIN g.grid THEN Returned(g, [tag |-> "Panic"])
    ELSE IF g.grid[coords].tag # "Open" THEN Returned(g, Ok("NoChange"))
    ELSE IF g.grid[coords].count # count_closed(g, coords)
    THEN Returned(g, Ok("NoChange"))
    ELSE Game_chord_flag_loop(g, iter_neighbors(g.minefield.size, coords), 1)

\* Variant of mark_started: the state is not tested.
Game_mark_started_any_state(g, now) ==
    [g EXCEPT !.started_at = Some(now), !.state = "InProgress"]

\* Game::mark_started
Game_mark_started(g, now) ==
    IF g.state = "NotStarted"
    THEN [g EXCEPT !.started_at = Some(now), !.state = "InProgress"]
    ELSE g

\* Game::reveal_mines.  Every cell is rewritten from its own tile and mine
\* only, so the scan order does not show; flag_count grows by one for every
\* mined Closed or Question tile flagged when won.
reveal_mines(g, won) ==
    [g EXCEPT
        !.grid = [c \in DOMAIN g.grid |->
                     IF g.minefield.mines[c]
                     THEN IF g.grid[c].tag \in {"Closed", "Question"}
                          THEN IF won THEN Tile("Flag") ELSE Tile("Mine")
                          ELSE g.grid[c]
                     ELSE IF g.grid[c] = Tile("Flag") THEN Tile("IncorrectFlag")
                          ELSE g.grid[c]],
        !.flag_count =
            IF won
            THEN mult_added(g.flag_count,
                            Cardinality({c \in DOMAIN g.grid :
                                            /\ g.minefield.mines[c]
                                            /\ g.grid[c].tag \in {"Closed", "Question"}}))
            ELSE g.flag_count]

\* Game::mark_ended
mark_ended(g, won, now) ==
    IF g.state = "Win" /\ ~won THEN reveal_mines([g EXCEPT !.state = "Lose"], FALSE)
    ELSE IF g.state = "InstantWin" /\ ~won
    THEN reveal_mines([g EXCEPT !.state = "InstantLoss"], FALSE)
    ELSE IF is_final(g.state) THEN g
    ELSE IF g.state = "NotStarted"
    THEN reveal_mines([g EXCEPT !.state = IF won THEN "InstantWin" ELSE "InstantLoss",
                                !.ended_at = Some(now),
                                !.started_at = Some(now)], won)
    ELSE reveal_mines([g EXCEPT !.state = IF won THEN "Win" ELSE "Lose",
                                !.ended_at = Some(now)], won)

\* "self.grid[..] = Open(n); self.open_count += 1"
set_open(g, coords, n) ==
    [g EXCEPT !.grid[coords] = Open(n), !.open_count = saturating_inc(g.open_count)]

\* The Closed neighbours of coords, in the iterator's order.
closed_neighbors(g, coords) ==
    SelectSeq(iter_neighbors(g.minefield.size, coords),
              LAMBDA pos : g.grid[pos] = Tile("Closed"))

\* The flood-fill loop of open_tile.
RECURSIVE open_flood(_, _, _)

\* The end of a visit: g has the tile visit open with its count n, and a zero
\* tile queues its Closed neighbours not yet visited.
open_flood_visit(g, visited, rest, visit, n) ==
    IF n = 0
    THEN open_flood(g, visited,
                    rest \o SelectSeq(closed_neighbors(g, visit),
                                      LAMBDA pos : pos \notin visited))
    ELSE open_flood(g, visited, rest)

open_flood(g, visited, to_visit) ==
    IF to_visit = <<>> THEN g
    ELSE IF Head(to_visit) \in visited THEN open_flood(g, visited, Tail(to_visit))
    ELSE IF g.grid[Head(to_visit)].tag \in {"Open", "Flag"}
    THEN open_flood(g, visited \cup {Head(to_visit)}, Tail(to_visit))
    ELSE open_flood_visit(
             set_open(g, Head(to_visit), get_count(g.minefield, Head(to_visit))),
             visited \cup {Head(to_visit)}, Tail(to_visit), Head(to_visit),
             get_count(g.minefield, Head(to_visit)))

\* The end of open_tile on a safe tile: the win test.  A panic of safe_count
\* leaves the game as it is at that point.
open_finish(g, now, overflow_checks) ==
    IF is_none(safe_count(g.minefield, overflow_checks))
    THEN [tag |-> "Panic", engine |-> g]
    ELSE IF g.open_count = unwrap(safe_count(g.minefield, overflow_checks))
    THEN Outcome(mark_ended(g, TRUE, now), "Win")
    ELSE Outcome(Game_mark_started(g, now), "Safe")

\* Game::open_tile
open_tile(g, coords, now, overflow_checks) ==
    IF g.grid[coords] = Tile("Closed") /\ g.minefield.mines[coords]
    THEN Outcome(mark_ended([g EXCEPT !.grid[coords] = Tile("Exploded")], FALSE, now),
                 "Explode")
    ELSE IF g.grid[coords] = Tile("Closed")
    THEN IF get_count(g.minefield, coords) = 0
         THEN open_finish(
                  open_flood(set_open(g, coords, 0), {coords},
                             closed_neighbors(set_open(g, coords, 0), coords)),
                  now, overflow_checks)
         ELSE open_finish(set_open(g, coords, get_count(g.minefield, coords)), now,
                          overflow_checks)
    ELSE Outcome(g, "NoChange")

\* ".map(|n| self.open_tile(n, now)).reduce(BitOr::bitor).unwrap_or(NoChange)"
\* over the neighbours nbrs[i..]; acc is the merged outcome so far, None
\* before the first neighbour, and path the states left by the open_tile
\* calls made so far.  A panic of an open_tile call ends the loop.
RECURSIVE open_neighbors(_, _, _, _, _, _, _)

open_neighbors_merge(r, nbrs, i, acc, path, now, overflow_checks) ==
    IF "tag" \in DOMAIN r
    THEN [engine |-> r.engine, result |-> [tag |-> "Panic"],
          path |-> Append(path, r.engine.state)]
    ELSE open_neighbors(r.engine, nbrs, i + 1,
                        IF is_none(acc) THEN Some(r.outcome)
                        ELSE Some(OpenOutcome_bitor(unwrap(acc), r.outcome)),
                        Append(path, r.engine.state), now, overflow_checks)

open_neighbors(g, nbrs, i, acc, path, now, overflow_checks) ==
    IF i > Len(nbrs)
    THEN [engine |-> g,
          result |-> Ok(IF is_none(acc) THEN "NoChange" ELSE unwrap(acc)),
          path |-> path]
    ELSE open_neighbors_merge(open_tile(g, nbrs[i], now, overflow_checks), nbrs, i,
                              acc, path, now, overflow_checks)

\* Game::open_with_chords
open_with_chords(g, coords, now, overflow_checks) ==
    IF Minefield_validate_coords(g.minefield, coords).tag = "Err"
    THEN Returned(g, Minefield_validate_coords(g.minefield, coords))
    ELSE IF check_final(g).tag = "Err" THEN Returned(g, check_final(g))
    ELSE IF /\ g.grid[coords].tag = "Open"
            /\ g.grid[coords].count = count_flagged(g, coords)
            /\ ~has_adjacent_question(g, coords)
    THEN IF check_in_progress(g).tag = "Err" THEN Returned(g, check_in_progress(g))
         ELSE open_neighbors(g, iter_neighbors(g.minefield.size, coords), 1, None,
                             <<>>, now, overflow_checks)
    ELSE IF "tag" \in DOMAIN open_tile(g, coords, now, overflow_checks)
    THEN Returned(open_tile(g, coords, now, overflow_checks).engine, [tag |-> "Panic"])
    ELSE Returned(open_tile(g, coords, now, overflow_checks).engine,
                  Ok(open_tile(g, coords, now, overflow_checks).outcome))

\* Game::chord_open
chord_open(g, coords, now, overflow_checks) ==
    IF Minefield_validate_coords(g.minefield, coords).tag = "Err"
    THEN Returned(g, Minefield_validate_coords(g.minefield, coords))
    ELSE IF check_final(g).tag = "Err" THEN Returned(g, check_final(g))
    ELSE IF /\ g.grid[coords].tag = "Open"
            /\ g.grid[coords].count = count_flagged(g, coords)
            /\ ~has_adjacent_question(g, coords)
    THEN IF check_in_progress(g).tag = "Err" THEN Returned(g, check_in_progress(g))
         ELSE open_neighbors(g, iter_neighbors(g.minefield.size, coords), 1, None,
                             <<>>, now, overflow_checks)
    ELSE IF "tag" \in DOMAIN open_tile(g, coords, now, overflow_checks)
    THEN Returned(open_tile(g, coords, now, overflow_checks).engine, [tag |-> "Panic"])
    ELSE Returned(open_tile(g, coords, now, overflow_checks).engine,
                  Ok(open_tile(g, coords, now, overflow_checks).outcome))

\* Game::open.  The grid is indexed before the coordinates are validated:
\* coordinates outside the board panic.
open(g, coords, now, overflow_checks) ==
    IF coords \notin DOMAIN g.grid THEN Returned(g, [tag |-> "Panic"])
    ELSE IF g.grid[coords] = Tile("Closed")
    THEN open_with_chords(g, coords, now, overflow_checks)
    ELSE Returned(g, Ok("NoChange"))

\* The parts of the state a specification does not use.
NoCall == [op |-> "none"]

EngineAbsent == engine = <<>> /\ before = <<>>

DsuAbsent == forest = <<>> /\ joined = {}

IterAbsent == iter = <<>> /\ yielded = <<>>

\* Shape-consistent observations with any contents, and observations in which
\* the revealed grid, the flags grid or both have other dimensions than size.
Init ==
    /\ \E s \in Shapes, m \in MineCounts :
        \/ \E r \in [nd_index(s) -> RevealedCells] :
               \E f \in FlagGrids(s, r) : obs = Observation(s, m, s, r, s, f)
        \/ \E d \in WrongDims(s) :
               \/ obs = Observation(s, m, d, from_elem(d, None), s, from_elem(s, FALSE))
               \/ obs = Observation(s, m, s, from_elem(s, None), d, from_elem(d, FALSE))
               \/ obs = Observation(s, m, d, from_elem(d, None), d, from_elem(d, FALSE))
    /\ cfg = DefaultConfig
    /\ out = empty_output(<<>>)
    /\ pc = "ready"
    /\ call = NoCall
    /\ EngineAbsent /\ DsuAbsent /\ IterAbsent

BuildConstraints ==
    /\ pc = "ready"
    /\ \E c \in AnalysisConfig :
        /\ cfg' = c
        /\ out' = build_constraints(obs, c)
    /\ pc' = "done"
    /\ UNCHANGED <<obs, engine, before, call, forest, joined, iter, yielded>>

Next == BuildConstraints

SpecBuild == Init /\ [][Next]_vars

\* The board of the test splits_independent_components, of size (5, 1), and
\* its revealed grid: clue 1 at (1, 0), clue 0 at (4, 0), hidden elsewhere.
splits_size == <<5, 1>>

splits_revealed ==
    [c \in nd_index(splits_size) |->
        CASE c = <<1, 0>> -> Some(1)
          [] c = <<4, 0>> -> Some(0)
          [] OTHER -> None]

\* Observations on that board without flags: any revealed grid, any mine
\* count.
InitRow ==
    /\ \E m \in MineCounts, r \in [nd_index(splits_size) -> RevealedCells] :
           obs = Observation(splits_size, m, splits_size, r,
                             splits_size, from_elem(splits_size, FALSE))
    /\ cfg = DefaultConfig
    /\ out = empty_output(<<>>)
    /\ pc = "ready"
    /\ call = NoCall
    /\ EngineAbsent /\ DsuAbsent /\ IterAbsent

SpecRow == InitRow /\ [][Next]_vars

\* The observations of Init together with those of InitRow: the boards of at
\* most MaxCells cells with any flags, and the flag-free row of five cells,
\* long enough for two clues to chain three variables.
InitChain == Init \/ InitRow

SpecChain == InitChain /\ [][Next]_vars

\* The two ways of checking the parts of an observation: obs holds the
\* arguments, call the result.
ObservationNew ==
    /\ pc = "ready"
    /\ call' = [op |-> "new",
                result |-> Observation_new(obs.size, obs.mine_count, obs.rdim,
                                           obs.revealed, obs.fdim, obs.flags)]
    /\ pc' = "done"
    /\ UNCHANGED <<obs, cfg, out, engine, before, forest, joined, iter, yielded>>

ObservationValidate ==
    /\ pc = "ready"
    /\ call' = [op |-> "validate", result |-> validate(obs)]
    /\ pc' = "done"
    /\ UNCHANGED <<obs, cfg, out, engine, before, forest, joined, iter, yielded>>

NextValidate == ObservationNew \/ ObservationValidate

SpecValidate == Init /\ [][NextValidate]_vars

\* Observations the engine would not produce: clue values up to the largest
\* u8, above the 8 neighbours a cell has, and flags anywhere, on revealed
\* cells too.
AnyClues == {0, MaxClue + 8, U8_MAX}

AnyClueShapes == {s \in Shapes : s[1] * s[2] < MaxCells}

AnyClueMineCounts == {None, Some(0), Some(MaxMines)}

InitAnyClue ==
    /\ \E s \in AnyClueShapes, m \in AnyClueMineCounts :
           \E r \in [nd_index(s) -> {None} \cup {Some(v) : v \in AnyClues}],
              f \in [nd_index(s) -> BOOLEAN] :
               obs = Observation(s, m, s, r, s, f)
    /\ cfg = DefaultConfig
    /\ out = empty_output(<<>>)
    /\ pc = "ready"
    /\ call = NoCall
    /\ EngineAbsent /\ DsuAbsent /\ IterAbsent

SpecAnyClue == InitAnyClue /\ [][Next]_vars

\* The boards of the games explored: the shapes of fewer than MaxCells cells
\* and the squares of at most MaxCells cells.
GameShapes == {s \in Shapes : s[1] * s[2] < MaxCells \/ s[1] = s[2]}

\* The times at which moves are made: started_at and ended_at only record
\* them, so one time is explored.
Times == {0}

\* The minefields over-full by one on a board of size s: the all-mined one the
\* generator returns when asked for one mine more than there are tiles, and
\* that one with a tile cleared through IndexMut.
OverfullMinefields(s) ==
    {[size |-> s, mines |-> [c \in nd_index(s) |-> c \notin cleared],
      count |-> mult(s[1], s[2]) + 1] :
        cleared \in {{}} \cup {{c} : c \in nd_index(s)}}

\* A game of lib.rs: a new Game over any minefield of a shape of GameShapes
\* (those whose count is the number of mined cells, and the over-full ones),
\* played by any sequence of moves with coordinates inside the board or just
\* outside it.  Each opening move is made by a build with or without
\* overflow checks; a move that panics leaves the Game as it is at the panic.
\* The variable engine holds the Game; call.from holds the state the move was
\* made in and call.path the states the Game was left in by the open_tile
\* calls of the move.
InitGame ==
    /\ \E s \in GameShapes :
           \E minefield \in
                  {[size |-> s, mines |-> [c \in nd_index(s) |-> c \in m],
                    count |-> Cardinality(m)] : m \in SUBSET nd_index(s)}
                      \cup OverfullMinefields(s) :
               engine = Game_new(minefield)
    /\ before = <<>>
    /\ call = NoCall
    /\ pc = "game"
    /\ obs = <<>> /\ cfg = DefaultConfig /\ out = empty_output(<<>>)
    /\ DsuAbsent /\ IterAbsent

GameCoords ==
    nd_index(engine.minefield.size)
        \cup {<<engine.minefield.size[1], 0>>, <<0, engine.minefield.size[2]>>}

GameCalled(op, coords, r) ==
    /\ engine' = r.engine
    /\ call' = [op |-> op, coords |-> coords, result |-> r.result,
                from |-> engine.state,
                path |-> IF "path" \in DOMAIN r THEN r.path ELSE <<r.engine.state>>]
    /\ UNCHANGED <<obs, cfg, out, pc, before, forest, joined, iter, yielded>>

\* Game::flag
GameFlag ==
    /\ pc = "game"
    /\ \E coords \in GameCoords :
           GameCalled("flag", coords, do_flag_question(engine, coords, FALSE))

\* Game::flag_question
GameFlagQuestion ==
    /\ pc = "game"
    /\ \E coords \in GameCoords :
           GameCalled("flag_question", coords, do_flag_question(engine, coords, TRUE))

GameChordFlag ==
    /\ pc = "game"
    /\ \E coords \in GameCoords :
           GameCalled("chord_flag", coords, Game_chord_flag(engine, coords))

GameOpen ==
    /\ pc = "game"
    /\ \E coords \in GameCoords, now \in Times, overflow_checks \in BOOLEAN :
           GameCalled("open", coords, open(engine, coords, now, overflow_checks))

GameChordOpen ==
    /\ pc = "game"
    /\ \E coords \in GameCoords, now \in Times, overflow_checks \in BOOLEAN :
           GameCalled("chord_open", coords, chord_open(engine, coords, now, overflow_checks))

GameOpenWithChords ==
    /\ pc = "game"
    /\ \E coords \in GameCoords, now \in Times, overflow_checks \in BOOLEAN :
           GameCalled("open_with_chords", coords, open_with_chords(engine, coords, now, overflow_checks))

NextGame ==
    \/ GameFlag \/ GameFlagQuestion \/ GameChordFlag
    \/ GameOpen \/ GameChordOpen \/ GameOpenWithChords

SpecGame == InitGame /\ [][NextGame]_vars

\* Observations with flags next to clues that their neighbours cannot
\* satisfy: clue values up to one above MaxClue, on boards of fewer than
\* MaxCells cells.
FlaggedClues == {None} \cup {Some(v) : v \in 0 .. MaxClue + 1}

InitFlagged ==
    /\ \E s \in AnyClueShapes, m \in MineCounts :
           \E r \in [nd_index(s) -> FlaggedClues] :
               \E f \in FlagGrids(s, r) : obs = Observation(s, m, s, r, s, f)
    /\ cfg = DefaultConfig
    /\ out = empty_output(<<>>)
    /\ pc = "ready"
    /\ call = NoCall
    /\ EngineAbsent /\ DsuAbsent /\ IterAbsent

SpecFlagged == InitFlagged /\ [][Next]_vars

\* A neighbour iterator over bounds at both ends of the u8 range, stepped by
\* calls of next until it returns None.
CoordSamples == (0 .. MaxCoord) \cup ((U8_MAX - MaxCoord) .. U8_MAX)

InitNeighbors ==
    /\ \E w \in CoordSamples, h \in CoordSamples :
           \E x \in {v \in CoordSamples : v < w}, y \in {v \in CoordSamples : v < h} :
               iter = NeighborIter_new(<<x, y>>, <<w, h>>)
    /\ yielded = <<>>
    /\ pc = "iterating"
    /\ obs = <<>> /\ cfg = DefaultConfig /\ out = <<>>
    /\ call = NoCall
    /\ EngineAbsent /\ DsuAbsent

NeighborNext ==
    /\ pc = "iterating"
    /\ iter' = next_item(iter).iter
    /\ IF is_some(next_item(iter).item)
       THEN yielded' = Append(yielded, unwrap(next_item(iter).item)) /\ pc' = pc
       ELSE yielded' = yielded /\ pc' = "exhausted"
    /\ UNCHANGED <<obs, cfg, out, engine, before, call, forest, joined>>

NextNeighbors == NeighborNext

SpecNeighbors == InitNeighbors /\ [][NextNeighbors]_vars

\* A union-find over 0 .. n - 1 under any sequence of union and find calls;
\* joined keeps the blocks the union calls have merged.
InitDsu ==
    /\ \E n \in 0 .. MaxCells :
           /\ forest = Dsu_new(n)
           /\ joined = {{i} : i \in 0 .. n - 1}
    /\ call = NoCall
    /\ pc = "dsu"
    /\ obs = <<>> /\ cfg = DefaultConfig /\ out = <<>>
    /\ EngineAbsent /\ IterAbsent

BlockOf(v) == CHOOSE b \in joined : v \in b

DsuUnion ==
    /\ pc = "dsu"
    /\ \E left \in DOMAIN forest.parent, right \in DOMAIN forest.parent :
           /\ forest' = Dsu_union(forest, left, right)
           /\ joined' = (joined \ {BlockOf(left), BlockOf(right)})
                            \cup {BlockOf(left) \cup BlockOf(right)}
           /\ call' = [op |-> "union", left |-> left, right |-> right]
    /\ UNCHANGED <<obs, cfg, out, pc, engine, before, iter, yielded>>

DsuFind ==
    /\ pc = "dsu"
    /\ \E value \in DOMAIN forest.parent :
           /\ forest' = Dsu_find(forest, value).dsu
           /\ call' = [op |-> "find", value |-> value,
                       root |-> Dsu_find(forest, value).root]
    /\ UNCHANGED <<obs, cfg, out, pc, engine, before, joined, iter, yielded>>

NextDsu == DsuUnion \/ DsuFind

SpecDsu == InitDsu /\ [][NextDsu]_vars

\* A game: a new engine over any layout of any shape, played by any sequence
\* of calls with coordinates inside the board or just outside it, and
\* observed at any moment.  The layouts are those of from_mine_coords and the
\* one the random generator returns when asked for more mines than cells:
\* every cell mined and mine_count the number asked for.
InitEngine ==
    /\ \E s \in Shapes :
           \E layout \in {from_mine_coords(s, mines) : mines \in SUBSET nd_index(s)}
                            \cup {MineLayout(s, from_elem(s, TRUE), mult(s[1], s[2]) + 1)} :
               /\ engine = PlayEngine_new(layout)
               /\ before = PlayEngine_new(layout)
    /\ call = NoCall
    /\ pc = "play"
    /\ obs = <<>> /\ cfg = DefaultConfig /\ out = empty_output(<<>>)
    /\ DsuAbsent /\ IterAbsent

TryCoords ==
    nd_index(engine.mine_layout.size)
        \cup {<<engine.mine_layout.size[1], 0>>, <<0, engine.mine_layout.size[2]>>}

\* The call op(engine, coords) has returned r.
Called(op, coords, r) ==
    /\ engine' = r.engine
    /\ before' = engine
    /\ call' = [op |-> op, coords |-> coords, result |-> r.result]
    /\ UNCHANGED <<obs, cfg, out, pc, forest, joined, iter, yielded>>

Reveal ==
    /\ pc = "play"
    /\ \E coords \in TryCoords : Called("reveal", coords, reveal(engine, coords))

ToggleFlag ==
    /\ pc = "play"
    /\ \E coords \in TryCoords : Called("toggle_flag", coords, toggle_flag(engine, coords))

ChordFlag ==
    /\ pc = "play"
    /\ \E coords \in TryCoords : Called("chord_flag", coords, chord_flag(engine, coords))

ChordReveal ==
    /\ pc = "play"
    /\ \E coords \in TryCoords : Called("chord_reveal", coords, chord_reveal(engine, coords))

FromEngine ==
    /\ pc = "play"
    /\ obs' = from_engine(engine)
    /\ before' = engine
    /\ call' = [op |-> "from_engine"]
    /\ pc' = "ready"
    /\ UNCHANGED <<cfg, out, engine, forest, joined, iter, yielded>>

NextEngine == Reveal \/ ToggleFlag \/ ChordFlag \/ ChordReveal \/ FromEngine

SpecEngine == InitEngine /\ [][NextEngine]_vars

----------------------------------------------------------------------------
(* Vocabulary of the properties: the observation read directly, without    *)
(* the builder.                                                            *)

Done == pc = "done"

ShapeOK == obs.rdim = obs.size /\ obs.fdim = obs.size

CellTotal == obs.size[1] * obs.size[2]

MineCountKnown == Len(obs.mine_count) = 1

MineCountTooLarge == MineCountKnown /\ obs.mine_count[1] > CellTotal

ValidObservation == ShapeOK /\ ~MineCountTooLarge

Board == (0 .. obs.size[1] - 1) \X (0 .. obs.size[2] - 1)

HiddenCells == {c \in Board : obs.revealed[c] = <<>>}

ClueCells == Board \ HiddenCells

\* a is visited before b when x runs in the outer loop and y in the inner one.
ScanBefore(a, b) == a[1] < b[1] \/ (a[1] = b[1] /\ a[2] < b[2])

EmptyProblem ==
    [variables |-> <<>>, equations |-> <<>>, components |-> <<>>,
     unconstrained_variable_ids |-> <<>>]

Variables == out.problem.variables

Equations == out.problem.equations

LocalIndexes == {i \in 1 .. Len(Equations) : Equations[i].kind.tag = "LocalClue"}

GlobalIndexes == {i \in 1 .. Len(Equations) : Equations[i].kind.tag = "GlobalMineCount"}

ContradictionsTagged(tag) ==
    {k \in 1 .. Len(out.contradictions) : out.contradictions[k].tag = tag}

----------------------------------------------------------------------------
(* Properties of build_constraints.                                        *)

\* C1: when the revealed grid or the flags grid does not have the dimensions
\* of size, the call returns the single contradiction InvalidObservationShape
\* and a problem without variables, equations, components or unconstrained
\* ids, whatever the configuration and the mine count.
C1_ShapeMismatchIsFatal ==
    (Done /\ ~ShapeOK) =>
        /\ out.contradictions = <<[tag |-> "InvalidObservationShape"]>>
        /\ out.problem = EmptyProblem

C1_Witness ==
    /\ Done
    /\ obs.rdim = obs.size
    /\ obs.fdim # obs.size
    /\ MineCountTooLarge
    /\ cfg.mine_count_usage = "Ignore"
    /\ out.contradictions = <<[tag |-> "InvalidObservationShape"]>>

\* C2: on a shape-consistent observation whose known mine count exceeds
\* size.0 * size.1 the call returns the single contradiction
\* InvalidMineCount{mine_count, max_cells = size.0 * size.1} and an empty
\* problem under every configuration; when the shape is invalid as well, only
\* InvalidObservationShape is reported.
C2_MineCountTooLargeIsFatal ==
    (Done /\ MineCountTooLarge) =>
        /\ out.problem = EmptyProblem
        /\ ShapeOK =>
              out.contradictions =
                  <<[tag |-> "InvalidMineCount", mine_count |-> obs.mine_count[1],
                     max_cells |-> CellTotal]>>
        /\ ~ShapeOK =>
              out.contradictions = <<[tag |-> "InvalidObservationShape"]>>

C2_Witness ==
    /\ Done
    /\ ShapeOK
    /\ CellTotal >= 1
    /\ MineCountTooLarge
    /\ cfg = [flag_semantics |-> "Strict", mine_count_usage |-> "Ignore"]
    /\ out.contradictions[1].tag = "InvalidMineCount"
    /\ out.contradictions[1].max_cells = CellTotal

\* C3 as stated: on the fatal paths all six counters of the stats are 0,
\* contradiction_count included.
C3_FatalStatsAllZero ==
    (Done /\ ~ValidObservation) =>
        /\ out.stats.variable_count = 0
        /\ out.stats.local_equation_count = 0
        /\ out.stats.global_equation_count = 0
        /\ out.stats.component_count = 0
        /\ out.stats.max_component_variables = 0
        /\ out.stats.contradiction_count = 0

\* C3 amended: on the fatal paths the five counters of the problem are 0 and
\* contradiction_count is 1, the number of contradictions returned.
C3_FatalStats ==
    (Done /\ ~ValidObservation) =>
        /\ out.stats.variable_count = 0
        /\ out.stats.local_equation_count = 0
        /\ out.stats.global_equation_count = 0
        /\ out.stats.component_count = 0
        /\ out.stats.max_component_variables = 0
        /\ out.stats.contradiction_count = 1
        /\ Len(out.contradictions) = 1

C3_Witness ==
    /\ Done
    /\ ShapeOK
    /\ MineCountTooLarge
    /\ out.stats.contradiction_count = 1
    /\ out.stats.variable_count = 0
    /\ HiddenCells # {}

\* C4: on a valid observation there is exactly one variable per hidden cell
\* and none for a revealed cell; the variable at position i has id i (ids
\* dense from 0), distinct variables have distinct coordinates, ids increase
\* in the scan order x-outer / y-inner, and flagged is the flags grid at the
\* variable's coordinates.
C4_VariablesEnumerateHiddenCells ==
    (Done /\ ValidObservation) =>
        /\ Len(Variables) = Cardinality(HiddenCells)
        /\ out.stats.variable_count = Cardinality(HiddenCells)
        /\ \A i \in 1 .. Len(Variables) :
              /\ Variables[i].id = i - 1
              /\ Variables[i].coords \in HiddenCells
              /\ Variables[i].flagged = obs.flags[Variables[i].coords]
        /\ \A i, j \in 1 .. Len(Variables) :
              i < j => ScanBefore(Variables[i].coords, Variables[j].coords)

C4_Witness ==
    /\ Done
    /\ ValidObservation
    /\ obs.size = <<2, 2>>
    /\ ClueCells = {<<0, 0>>}
    /\ obs.flags[<<1, 0>>]
    /\ ~obs.flags[<<0, 1>>]
    /\ Len(Variables) = 3
    /\ Variables[1].coords = <<0, 1>>
    /\ Variables[2].coords = <<1, 0>>
    /\ Variables[2].flagged

\* C5: the equation at position i has id i; every LocalClue equation comes
\* before the GlobalMineCount equation; LocalClue equations are in the scan
\* order of their clues; ids stay dense when infeasible clues are skipped.
C5_EquationIdsDenseInGenerationOrder ==
    Done =>
        /\ \A i \in 1 .. Len(Equations) : Equations[i].id = i - 1
        /\ \A i \in GlobalIndexes : \A j \in LocalIndexes : j < i
        /\ \A i, j \in LocalIndexes :
              i < j => ScanBefore(Equations[i].kind.clue, Equations[j].kind.clue)

\* A skipped clue lies between two emitted ones, and the global equation
\* closes the list.
C5_Witness ==
    /\ Done
    /\ Len(Equations) = 3
    /\ GlobalIndexes = {3}
    /\ \E k \in ContradictionsTagged("LocalClueImpossible") :
          /\ ScanBefore(Equations[1].kind.clue, out.contradictions[k].clue)
          /\ ScanBefore(out.contradictions[k].clue, Equations[2].kind.clue)
    /\ Equations[3].id = 2

----------------------------------------------------------------------------
(* Expected equations, read off the observation.                           *)

\* The cells around c inside the board, in the order of the displacement
\* table.
MooreNeighbors(c) ==
    LET around == [i \in 1 .. 8 |->
                      <<c[1] + DISPLACEMENTS[i][1], c[2] + DISPLACEMENTS[i][2]>>]
        InBoard(n) == n \in Board
    IN SelectSeq(around, InBoard)

\* The id of the hidden cell c: the number of hidden cells scanned before it.
HiddenId(c) == Cardinality({h \in HiddenCells : ScanBefore(h, c)})

\* A hidden cell whose flag is trusted: flagged, under Strict.
TrustedFlag(n) == cfg.flag_semantics = "Strict" /\ obs.flags[n]

\* The variables a clue's equation ranges over, and its adjusted target.
ExpectedClueVars(clue) ==
    LET Kept(n) == n \in HiddenCells /\ ~TrustedFlag(n)
        kept == SelectSeq(MooreNeighbors(clue), Kept)
    IN [i \in 1 .. Len(kept) |-> HiddenId(kept[i])]

ExpectedClueTarget(clue) ==
    LET nbrs == MooreNeighbors(clue) IN
    obs.revealed[clue][1]
        - Cardinality({i \in 1 .. Len(nbrs) :
                          nbrs[i] \in HiddenCells /\ TrustedFlag(nbrs[i])})

ClueInfeasible(clue) ==
    \/ ExpectedClueTarget(clue) < 0
    \/ ExpectedClueTarget(clue) > Len(ExpectedClueVars(clue))

TrustedFlags == {c \in HiddenCells : TrustedFlag(c)}

ExpectedGlobalTarget == obs.mine_count[1] - Cardinality(TrustedFlags)

ExpectedGlobalIds == {HiddenId(c) : c \in HiddenCells \ TrustedFlags}

GlobalRequested == cfg.mine_count_usage = "UseIfKnown" /\ MineCountKnown

GlobalFeasible ==
    /\ ExpectedGlobalTarget >= 0
    /\ ExpectedGlobalTarget <= Cardinality(ExpectedGlobalIds)

\* C6: an emitted LocalClue equation ranges, under Soft, over all hidden
\* neighbours of its clue with the clue value as target and, under Strict,
\* over the unflagged hidden neighbours with the clue value minus the number
\* of flagged hidden neighbours as target; revealed neighbours never appear
\* and the variables follow the neighbour iteration order.
C6_LocalEquationContents ==
    (Done /\ ValidObservation) =>
        \A i \in LocalIndexes :
            LET e == Equations[i]
                clue == e.kind.clue
                nbrs == MooreNeighbors(clue)
            IN /\ clue \in ClueCells
               /\ e.variable_ids = ExpectedClueVars(clue)
               /\ e.target_mines = ExpectedClueTarget(clue)
               /\ \A k \in 1 .. Len(e.variable_ids) :
                     \E h \in HiddenCells : HiddenId(h) = e.variable_ids[k]
               /\ cfg.flag_semantics = "Soft" =>
                     /\ e.target_mines = obs.revealed[clue][1]
                     /\ Len(e.variable_ids) =
                            Cardinality({k \in 1 .. Len(nbrs) : nbrs[k] \in HiddenCells})

\* Strict, on the 2 x 2 board: the clue at (0, 0) sees (1, 0), (0, 1) and the
\* flagged (1, 1); its variables come in neighbour order, not in id order.
C6_Witness ==
    /\ Done
    /\ ValidObservation
    /\ cfg.flag_semantics = "Strict"
    /\ obs.size = <<2, 2>>
    /\ ClueCells = {<<0, 0>>}
    /\ obs.revealed[<<0, 0>>] = <<1>>
    /\ \A c \in HiddenCells : obs.flags[c] <=> c = <<1, 1>>
    /\ LocalIndexes = {1}
    /\ Equations[1].variable_ids = <<1, 0>>
    /\ Equations[1].target_mines = 0

\* C7: on a valid observation every revealed cell yields either one LocalClue
\* equation or one LocalClueImpossible contradiction; the contradiction, and
\* no equation, exactly when the adjusted target is negative or exceeds the
\* number of included variables, and it carries that target and that number.
\* An infeasible clue removes only its own equation: all variables are still
\* produced.
C7_ClueYieldsEquationOrContradiction ==
    (Done /\ ValidObservation) =>
        /\ Len(Variables) = Cardinality(HiddenCells)
        /\ \A i \in LocalIndexes : Equations[i].kind.clue \in ClueCells
        /\ \A k \in ContradictionsTagged("LocalClueImpossible") :
              out.contradictions[k].clue \in ClueCells
        /\ \A clue \in ClueCells :
              LET eqs == {i \in LocalIndexes : Equations[i].kind.clue = clue}
                  cons == {k \in ContradictionsTagged("LocalClueImpossible") :
                              out.contradictions[k].clue = clue}
              IN IF ClueInfeasible(clue)
                 THEN /\ eqs = {}
                      /\ Cardinality(cons) = 1
                      /\ \A k \in cons :
                            /\ out.contradictions[k].target_mines =
                                   ExpectedClueTarget(clue)
                            /\ out.contradictions[k].available_variables =
                                   Len(ExpectedClueVars(clue))
                 ELSE /\ Cardinality(eqs) = 1
                      /\ cons = {}

\* Strict: one clue has more flagged hidden neighbours than its value and is
\* reported with a negative target, while another clue keeps its equation.
C7_Witness ==
    /\ Done
    /\ ValidObservation
    /\ cfg.flag_semantics = "Strict"
    /\ \E k \in ContradictionsTagged("LocalClueImpossible") :
          /\ out.contradictions[k].target_mines < 0
          /\ \E i \in LocalIndexes :
                /\ Equations[i].kind.clue # out.contradictions[k].clue
                /\ Len(Equations[i].variable_ids) >= 1
    /\ Len(Variables) >= 2

\* C8: on a valid observation there is at most one GlobalMineCount equation.
\* It is present exactly when usage is UseIfKnown, the mine count is known and
\* the adjusted global target lies between 0 and the number of included
\* variables; when it is requested but out of that range, exactly one
\* GlobalMineCountImpossible is emitted instead and the local equations are
\* those built without the mine count; when the mine count is unknown or usage
\* is Ignore there is neither.
C8_GlobalEquationPresence ==
    (Done /\ ValidObservation) =>
        LET impossible == ContradictionsTagged("GlobalMineCountImpossible") IN
        /\ Cardinality(GlobalIndexes) <= 1
        /\ GlobalIndexes # {} <=> (GlobalRequested /\ GlobalFeasible)
        /\ impossible # {} <=> (GlobalRequested /\ ~GlobalFeasible)
        /\ Cardinality(impossible) <= 1
        /\ (GlobalRequested /\ ~GlobalFeasible) =>
              LET ignoring == build_constraints(
                                  obs, [cfg EXCEPT !.mine_count_usage = "Ignore"])
              IN /\ Equations = ignoring.problem.equations
                 /\ SelectSeq(out.contradictions,
                              LAMBDA x : x.tag # "GlobalMineCountImpossible")
                        = ignoring.contradictions
                 /\ \A k \in impossible :
                       /\ out.contradictions[k].target_mines = ExpectedGlobalTarget
                       /\ out.contradictions[k].available_variables =
                              Cardinality(ExpectedGlobalIds)

\* The mine count is requested and too large for the hidden cells left, next
\* to a clue that keeps its equation.
C8_Witness ==
    /\ Done
    /\ ValidObservation
    /\ GlobalRequested
    /\ ExpectedGlobalTarget > Cardinality(ExpectedGlobalIds)
    /\ Cardinality(ContradictionsTagged("GlobalMineCountImpossible")) = 1
    /\ GlobalIndexes = {}
    /\ LocalIndexes # {}

\* C9: the GlobalMineCount equation ranges, under Soft, over all variable ids
\* in ascending order with the mine count as target and, under Strict, over
\* the ids of the unflagged variables in ascending order with the mine count
\* minus the number of flagged variables as target, wherever the flagged
\* hidden cells lie.
C9_GlobalEquationContents ==
    (Done /\ ValidObservation) =>
        \A i \in GlobalIndexes :
            LET e == Equations[i] IN
            /\ e.target_mines = ExpectedGlobalTarget
            /\ {e.variable_ids[k] : k \in 1 .. Len(e.variable_ids)} = ExpectedGlobalIds
            /\ \A k \in 1 .. Len(e.variable_ids) - 1 :
                  e.variable_ids[k] < e.variable_ids[k + 1]
            /\ cfg.flag_semantics = "Soft" =>
                  /\ e.target_mines = obs.mine_count[1]
                  /\ e.variable_ids = [k \in 1 .. Len(Variables) |-> k - 1]

\* Strict: a flagged hidden cell with no clue around it is subtracted from
\* the global target and left out of the equation.
C9_Witness ==
    /\ Done
    /\ ValidObservation
    /\ cfg.flag_semantics = "Strict"
    /\ ClueCells # {}
    /\ \E c \in HiddenCells :
          /\ obs.flags[c]
          /\ \A k \in 1 .. Len(MooreNeighbors(c)) : MooreNeighbors(c)[k] \in HiddenCells
          /\ \E i \in GlobalIndexes :
                /\ Equations[i].target_mines = obs.mine_count[1] - 1
                /\ \A k \in 1 .. Len(Equations[i].variable_ids) :
                      Equations[i].variable_ids[k] # HiddenId(c)
                /\ Len(Equations[i].variable_ids) = Len(Variables) - 1

\* C10: the global equation never influences componentization: components
\* and unconstrained variable ids are the same under UseIfKnown and under
\* Ignore, and the id of the GlobalMineCount equation is in no component's
\* equation_ids.
C10_GlobalEquationOutsideComponents ==
    (Done /\ ValidObservation) =>
        LET other == build_constraints(
                obs,
                [cfg EXCEPT !.mine_count_usage =
                     IF @ = "Ignore" THEN "UseIfKnown" ELSE "Ignore"])
            components == out.problem.components
        IN /\ components = other.problem.components
           /\ out.problem.unconstrained_variable_ids =
                  other.problem.unconstrained_variable_ids
           /\ \A i \in GlobalIndexes : \A k \in 1 .. Len(components) :
                 \A j \in 1 .. Len(components[k].equation_ids) :
                     components[k].equation_ids[j] # Equations[i].id

\* The global equation spans the variables of two separate components.
C10_Witness ==
    /\ Done
    /\ ValidObservation
    /\ cfg.mine_count_usage = "UseIfKnown"
    /\ GlobalIndexes # {}
    /\ Len(out.problem.components) = 2
    /\ \E i \in GlobalIndexes : Len(Equations[i].variable_ids) = Len(Variables)

----------------------------------------------------------------------------
(* Properties of the components.                                           *)

Components == out.problem.components

Unconstrained == out.problem.unconstrained_variable_ids

VariableIds == 0 .. Len(Variables) - 1

Range(s) == {s[j] : j \in 1 .. Len(s)}

\* The places <<component, position>> at which v is listed in a component.
ComponentSlots(v) ==
    UNION {{<<k, j>> : j \in {j \in 1 .. Len(Components[k].variable_ids) :
                                  Components[k].variable_ids[j] = v}} :
           k \in 1 .. Len(Components)}

UnconstrainedSlots(v) == {j \in 1 .. Len(Unconstrained) : Unconstrained[j] = v}

\* The variables sharing an emitted local equation with a.
Adjacent(a) ==
    {b \in VariableIds :
        \E i \in LocalIndexes : {a, b} \subseteq Range(Equations[i].variable_ids)}

\* The variables reached from those of S along chains of emitted local
\* equations.
RECURSIVE ReachFrom(_)
ReachFrom(S) ==
    LET T == S \cup UNION {Adjacent(a) : a \in S} IN
    IF T = S THEN S ELSE ReachFrom(T)

SameComponent(a, b) ==
    \E k \in 1 .. Len(Components) : {a, b} \subseteq Range(Components[k].variable_ids)

\* The variables that occur in an emitted local equation.
LocallyConstrained ==
    UNION {Range(Equations[i].variable_ids) : i \in LocalIndexes}

StrictlyAscending(s) == \A j \in 1 .. Len(s) - 1 : s[j] < s[j + 1]

\* C11: every variable id is listed exactly once in the whole result: in the
\* variable_ids of exactly one component, or in unconstrained_variable_ids,
\* never in both and never in two components; nothing else is listed.
C11_VariablesPartitioned ==
    Done =>
        /\ \A v \in VariableIds :
               Cardinality(ComponentSlots(v)) + Cardinality(UnconstrainedSlots(v)) = 1
        /\ Range(Unconstrained) \subseteq VariableIds
        /\ \A k \in 1 .. Len(Components) :
               Range(Components[k].variable_ids) \subseteq VariableIds

C11_Witness ==
    /\ Done
    /\ Len(Variables) >= 3
    /\ \E k \in 1 .. Len(Components) : Len(Components[k].variable_ids) >= 2
    /\ Len(Unconstrained) >= 1

\* C12: two distinct variables are in the same component exactly when a chain
\* of emitted local equations links them, each equation of the chain sharing
\* a variable with the next; a variable of an emitted local equation is in
\* the component of every variable of that equation; a clue dropped as
\* infeasible and the global equation link nothing.
C12_ComponentsAreConnectedComponents ==
    (Done /\ ValidObservation) =>
        /\ \A a \in VariableIds : \A b \in VariableIds \ {a} :
               SameComponent(a, b) <=> b \in ReachFrom({a})
        /\ \A a \in LocallyConstrained : SameComponent(a, a)

C12_Witness ==
    /\ Done
    /\ ValidObservation
    /\ ContradictionsTagged("LocalClueImpossible") # {}
    /\ GlobalIndexes # {}
    /\ Len(Components) >= 1
    /\ \E a \in VariableIds : \E b \in VariableIds \ {a} :
           /\ ~SameComponent(a, b)
           /\ \E k \in ContradictionsTagged("LocalClueImpossible") :
                  {Variables[a + 1].coords, Variables[b + 1].coords}
                      \subseteq Range(MooreNeighbors(out.contradictions[k].clue))

\* Two emitted equations chain three variables: a and c share no equation
\* and are in one component through b, which shares one with each.
C12_WitnessChain ==
    /\ Done
    /\ ValidObservation
    /\ \E a \in VariableIds : \E c \in VariableIds \ {a} :
           /\ SameComponent(a, c)
           /\ \A i \in LocalIndexes : {a, c} \notin SUBSET Range(Equations[i].variable_ids)
           /\ \E b \in VariableIds \ {a, c} : \E i \in LocalIndexes, j \in LocalIndexes :
                  /\ {a, b} \subseteq Range(Equations[i].variable_ids)
                  /\ {b, c} \subseteq Range(Equations[j].variable_ids)
           /\ c \in ReachFrom({a})
           /\ c \notin Adjacent(a)

\* C13: unconstrained_variable_ids lists, in strictly ascending order, exactly
\* the variable ids that occur in no emitted local equation, and none of them
\* is listed in a component.
C13_UnconstrainedAreUntouched ==
    (Done /\ ValidObservation) =>
        /\ Range(Unconstrained) = VariableIds \ LocallyConstrained
        /\ StrictlyAscending(Unconstrained)
        /\ \A v \in Range(Unconstrained) : ComponentSlots(v) = {}

C13_Witness ==
    /\ Done
    /\ ValidObservation
    /\ Len(Unconstrained) >= 2
    /\ LocallyConstrained # {}
    /\ GlobalIndexes # {}
    /\ \E i \in GlobalIndexes : Range(Unconstrained) \subseteq Range(Equations[i].variable_ids)

\* The cell of the variable v, and the revealed cells around a cell.
CellOf(v) == Variables[v + 1].coords

RevealedNeighbors(c) == Range(MooreNeighbors(c)) \cap ClueCells

Isolated(v) == RevealedNeighbors(CellOf(v)) = {}

\* C14 as stated: a variable is unconstrained exactly when its hidden cell has
\* no revealed neighbour, under both flag semantics and with infeasible clues.
C14_UnconstrainedIffIsolated ==
    (Done /\ ValidObservation) =>
        \A v \in VariableIds : v \in Range(Unconstrained) <=> Isolated(v)

\* C14: a variable is unconstrained exactly when no revealed neighbour of its
\* cell emits an equation over it, that is when each revealed neighbour is an
\* infeasible clue or, under Strict, when the cell is flagged; so every
\* isolated hidden cell is unconstrained, and under Soft without an infeasible
\* clue the unconstrained variables are exactly the isolated hidden cells.
C14_UnconstrainedIffNoEmittedClue ==
    (Done /\ ValidObservation) =>
        /\ \A v \in VariableIds :
               v \in Range(Unconstrained) <=>
                   \A n \in RevealedNeighbors(CellOf(v)) :
                       ClueInfeasible(n) \/ TrustedFlag(CellOf(v))
        /\ \A v \in VariableIds : Isolated(v) => v \in Range(Unconstrained)
        /\ (cfg.flag_semantics = "Soft"
                /\ ContradictionsTagged("LocalClueImpossible") = {}) =>
               \A v \in Range(Unconstrained) : Isolated(v)

C14_Witness ==
    /\ Done
    /\ ValidObservation
    /\ Len(Components) >= 1
    /\ \E v \in Range(Unconstrained) : Isolated(v)
    /\ \E v \in Range(Unconstrained) :
           /\ TrustedFlag(CellOf(v))
           /\ \E n \in RevealedNeighbors(CellOf(v)) : ~ClueInfeasible(n)

\* The components that list the equation id, and how often component k does.
EquationOwners(id) ==
    {k \in 1 .. Len(Components) : id \in Range(Components[k].equation_ids)}

EquationListings(k, id) ==
    Cardinality({j \in 1 .. Len(Components[k].equation_ids) :
                    Components[k].equation_ids[j] = id})

OwnedByOne(i) ==
    /\ Cardinality(EquationOwners(Equations[i].id)) = 1
    /\ \A k \in EquationOwners(Equations[i].id) :
           Range(Equations[i].variable_ids) \subseteq Range(Components[k].variable_ids)

\* C15 as stated: every emitted local equation is listed by exactly one
\* component, which contains all its variables.
C15_EveryLocalEquationInOneComponent ==
    (Done /\ ValidObservation) => \A i \in LocalIndexes : OwnedByOne(i)

\* C15: every emitted local equation with at least one variable is listed,
\* once, by exactly one component, which contains all its variables; an
\* emitted local equation without variables (target 0, no hidden neighbour
\* kept) is listed by no component.
C15_NonEmptyLocalEquationInOneComponent ==
    (Done /\ ValidObservation) =>
        \A i \in LocalIndexes :
            IF Len(Equations[i].variable_ids) = 0
            THEN EquationOwners(Equations[i].id) = {}
            ELSE /\ OwnedByOne(i)
                 /\ \A k \in EquationOwners(Equations[i].id) :
                        EquationListings(k, Equations[i].id) = 1

C15_Witness ==
    /\ Done
    /\ ValidObservation
    /\ Len(Components) >= 1
    /\ \E i \in LocalIndexes :
           /\ Len(Equations[i].variable_ids) = 0
           /\ Equations[i].target_mines = 0
           /\ EquationOwners(Equations[i].id) = {}
    /\ \E i \in LocalIndexes : Len(Equations[i].variable_ids) >= 1 /\ OwnedByOne(i)

MaxOf(S) == IF S = {} THEN 0 ELSE CHOOSE m \in S : \A x \in S : x <= m

\* C16: on every path the stats can be recomputed from the other fields:
\* variable_count, component_count and contradiction_count are the lengths of
\* variables, components and contradictions, local_equation_count and
\* global_equation_count (0 or 1) count the equations of each kind and add up
\* to the number of equations, and max_component_variables is the largest
\* number of variables of a component, 0 without components.
C16_StatsRecomputable ==
    Done =>
        /\ out.stats.variable_count = Len(Variables)
        /\ out.stats.local_equation_count = Cardinality(LocalIndexes)
        /\ out.stats.global_equation_count = Cardinality(GlobalIndexes)
        /\ out.stats.global_equation_count \in {0, 1}
        /\ out.stats.local_equation_count + out.stats.global_equation_count
               = Len(Equations)
        /\ out.stats.component_count = Len(Components)
        /\ out.stats.max_component_variables =
               MaxOf({Len(Components[k].variable_ids) : k \in 1 .. Len(Components)})
        /\ out.stats.contradiction_count = Len(out.contradictions)

C16_Witness ==
    /\ Done
    /\ out.stats.variable_count >= 3
    /\ out.stats.local_equation_count >= 1
    /\ out.stats.global_equation_count = 1
    /\ out.stats.component_count >= 1
    /\ out.stats.max_component_variables >= 2
    /\ out.contradictions = <<>>
    /\ Len(Unconstrained) >= 1

NoFlags == \A c \in DOMAIN obs.flags : ~obs.flags[c]

OtherSemantics(c) ==
    [c EXCEPT !.flag_semantics = IF @ = "Soft" THEN "Strict" ELSE "Soft"]

\* C17: on a valid observation without a flagged cell the output under Soft
\* and the output under Strict, with the same mine_count_usage, are equal, so
\* neither reports a contradiction the other does not.
C17_NoFlagsSoftEqualsStrict ==
    (Done /\ ValidObservation /\ NoFlags) =>
        out = build_constraints(obs, OtherSemantics(cfg))

C17_Witness ==
    /\ Done
    /\ ValidObservation
    /\ NoFlags
    /\ cfg.flag_semantics = "Strict"
    /\ Len(Variables) >= 1
    /\ LocalIndexes # {}
    /\ ContradictionsTagged("LocalClueImpossible") # {}
    /\ ContradictionsTagged("GlobalMineCountImpossible") # {}

Unflagged(vs) == [j \in 1 .. Len(vs) |-> [vs[j] EXCEPT !.flagged = FALSE]]

\* C18: under Soft the flags do not influence the result: the output for the
\* observation equals the output for the same observation without any flag,
\* except for the flagged attribute of the variables; hence two valid
\* observations that differ only in flags get the same equations, components,
\* unconstrained ids, contradictions and stats.
C18_SoftIgnoresFlags ==
    (Done /\ ValidObservation /\ cfg.flag_semantics = "Soft") =>
        LET plain == build_constraints(
                         [obs EXCEPT !.flags = [c \in DOMAIN obs.flags |-> FALSE]], cfg)
        IN /\ out.problem.equations = plain.problem.equations
           /\ out.problem.components = plain.problem.components
           /\ out.problem.unconstrained_variable_ids
                  = plain.problem.unconstrained_variable_ids
           /\ out.contradictions = plain.contradictions
           /\ out.stats = plain.stats
           /\ Unflagged(out.problem.variables) = plain.problem.variables
           /\ \A j \in 1 .. Len(Variables) :
                  Variables[j].flagged = obs.flags[Variables[j].coords]

C18_Witness ==
    /\ Done
    /\ ValidObservation
    /\ cfg.flag_semantics = "Soft"
    /\ obs.size = <<2, 1>>
    /\ obs.revealed[<<0, 0>>] = None /\ obs.flags[<<0, 0>>]
    /\ obs.revealed[<<1, 0>>] = Some(0)
    /\ out.contradictions = <<>>
    /\ LocalIndexes # {}

\* The call of the test splits_independent_components has returned.
SplitScenario ==
    /\ Done
    /\ obs = Observation(splits_size, None, splits_size, splits_revealed,
                         splits_size, from_elem(splits_size, FALSE))
    /\ cfg = [flag_semantics |-> "Soft", mine_count_usage |-> "Ignore"]

\* C19: for the 5x1 observation hidden, clue 1, hidden, hidden, clue 0 without
\* flags and with an unknown mine count, under Soft with the mine count
\* ignored, there are exactly 2 components, with variable_ids [0, 1] and [2].
C19_SplitsIndependentComponents ==
    SplitScenario =>
        /\ Len(Components) = 2
        /\ {Components[k].variable_ids : k \in 1 .. Len(Components)}
               = {<<0, 1>>, <<2>>}

C19_Witness == SplitScenario /\ out.stats.component_count = 2

\* C20 as stated: in that scenario a variable with id 3 exists and
\* unconstrained_variable_ids contains 3.
C20_VariableThreeUnconstrained ==
    SplitScenario =>
        /\ \E j \in 1 .. Len(Variables) : Variables[j].id = 3
        /\ 3 \in Range(Unconstrained)

\* C20: in that scenario there are exactly three variables, with ids 0, 1, 2
\* for the hidden cells at positions 0, 2, 3; no variable has id 3 and
\* unconstrained_variable_ids is empty: the hidden cell at position 3 is
\* variable 2, the only variable of the equation of the clue at position 4.
C20_NoVariableThreeNoneUnconstrained ==
    SplitScenario =>
        /\ Variables = <<ConstraintVariable(0, <<0, 0>>, FALSE),
                         ConstraintVariable(1, <<2, 0>>, FALSE),
                         ConstraintVariable(2, <<3, 0>>, FALSE)>>
        /\ Unconstrained = <<>>
        /\ \E i \in LocalIndexes :
               /\ Equations[i].kind.clue = <<4, 0>>
               /\ Equations[i].variable_ids = <<2>>
               /\ EquationOwners(Equations[i].id) = {2}

C20_Witness ==
    /\ SplitScenario
    /\ out.stats.variable_count = 3
    /\ Len(Unconstrained) = 0

----------------------------------------------------------------------------
(* Robustness of build_constraints.                                        *)

HiddenNeighbors(c) == Range(MooreNeighbors(c)) \cap HiddenCells

\* C21: on an observation whose grids match size the call returns without a
\* panic, whatever the clue values, flags, mine count, configuration and
\* size: every hidden neighbour of a revealed cell has a variable, and every
\* target written into an equation is a non-negative count.
C21_NoPanicOnValidShape ==
    (Done /\ ShapeOK) =>
        /\ ~out.panic
        /\ ~MineCountTooLarge =>
               \A c \in ClueCells : \A n \in HiddenNeighbors(c) :
                   \E j \in 1 .. Len(Variables) : Variables[j].coords = n
        /\ \A i \in 1 .. Len(Equations) : Equations[i].target_mines \in 0 .. U16_MAX

C21_Witness ==
    /\ Done
    /\ ShapeOK
    /\ ~out.panic
    /\ cfg.flag_semantics = "Strict"
    /\ \E c \in ClueCells :
           /\ obs.revealed[c][1] > 8
           /\ obs.flags[c]
           /\ \E n \in HiddenNeighbors(c) : obs.flags[n]
    /\ \E c \in ClueCells : obs.revealed[c][1] = U8_MAX
    /\ LocalIndexes # {}

----------------------------------------------------------------------------
(* The neighbour iterator.                                                 *)

\* The cells around center inside bounds, computed over the integers, in the
\* order of the displacement table.
NeighborsInBounds(center, bounds) ==
    LET around == [i \in 1 .. 8 |->
                      <<center[1] + DISPLACEMENTS[i][1], center[2] + DISPLACEMENTS[i][2]>>]
        Inside(n) == n[1] >= 0 /\ n[1] < bounds[1] /\ n[2] >= 0 /\ n[2] < bounds[2]
    IN SelectSeq(around, Inside)

IsPrefix(s, t) == Len(s) <= Len(t) /\ \A j \in 1 .. Len(s) : s[j] = t[j]

\* C22: for a centre inside the bounds the iterator yields the cells
\* (x + dx, y + dy) with dx, dy in -1 .. 1, not both 0, inside the bounds:
\* each once, never the centre, at most 8, in the order of DISPLACEMENTS, and
\* no coordinate wraps at 0 or at 255; iter_neighbors yields the same items.
C22_NeighborsExactlyMooreInBounds ==
    pc \in {"iterating", "exhausted"} =>
        /\ IsPrefix(yielded, NeighborsInBounds(iter.center, iter.bounds))
        /\ pc = "exhausted" =>
               /\ yielded = NeighborsInBounds(iter.center, iter.bounds)
               /\ yielded = iter_neighbors(iter.bounds, iter.center)
               /\ Range(yielded) =
                      {n \in ((iter.center[1] - 1) .. (iter.center[1] + 1))
                                \X ((iter.center[2] - 1) .. (iter.center[2] + 1)) :
                          /\ n # iter.center
                          /\ n[1] \in 0 .. iter.bounds[1] - 1
                          /\ n[2] \in 0 .. iter.bounds[2] - 1}
        /\ Len(yielded) <= 8
        /\ Cardinality(Range(yielded)) = Len(yielded)
        /\ iter.center \notin Range(yielded)

C22_Witness ==
    /\ pc = "exhausted"
    /\ iter.center = <<0, U8_MAX - 1>>
    /\ iter.bounds = <<MaxCoord, U8_MAX>>
    /\ yielded = <<(<<0, U8_MAX - 2>>), (<<1, U8_MAX - 2>>), (<<1, U8_MAX - 1>>)>>

----------------------------------------------------------------------------
(* The union-find.                                                         *)

Elements == DOMAIN forest.parent

RECURSIVE ParentPow(_, _)
ParentPow(v, k) == IF k = 0 THEN v ELSE ParentPow(forest.parent[v], k - 1)

IsRoot(v) == forest.parent[v] = v

\* C23: after any sequence of union and find calls, find(a) = find(b) exactly
\* when the union calls made so far connect a and b, also when find(b) runs
\* on the structure find(a) has compressed; the element find returns is its
\* own parent; a find call leaves the connections as they were; following the
\* parent pointers from any element ends in a root, so find terminates.
C23_DsuTracksConnectivity ==
    pc = "dsu" =>
        /\ \A a \in Elements : \A b \in Elements :
               /\ (Dsu_find(forest, a).root = Dsu_find(forest, b).root)
                      <=> BlockOf(a) = BlockOf(b)
               /\ Dsu_find(Dsu_find(forest, a).dsu, b).root = Dsu_find(forest, b).root
        /\ \A a \in Elements :
               Dsu_find(forest, a).dsu.parent[Dsu_find(forest, a).root]
                   = Dsu_find(forest, a).root
        /\ call.op = "find" => IsRoot(call.root) /\ call.root \in BlockOf(call.value)
        /\ \A v \in Elements : IsRoot(ParentPow(v, Cardinality(Elements)))
        /\ \A v \in Elements : ~IsRoot(v) => forest.rank[forest.parent[v]] > forest.rank[v]

C23_Witness ==
    /\ pc = "dsu"
    /\ call.op = "find"
    /\ forest.rank[call.root] = 2
    /\ \E v \in Elements : ~IsRoot(v) /\ ~IsRoot(forest.parent[v])
    /\ forest.parent[call.value] = call.root
    /\ call.value # call.root

----------------------------------------------------------------------------
(* Validation of an observation.                                           *)

ExpectedValidation ==
    IF ~ShapeOK THEN Err("InvalidBoardShape")
    ELSE IF MineCountTooLarge THEN Err("TooManyMines")
    ELSE Ok(<<>>)

\* C24: Observation::new and Observation::validate return
\* Err(InvalidBoardShape) when a grid does not have the dimensions of size,
\* otherwise Err(TooManyMines) when the mine count is known and larger than
\* size.0 * size.1, otherwise Ok; the observation new returns is made of its
\* arguments and passes validate.
C24_ValidationOrder ==
    Done =>
        /\ call.op = "validate" => call.result = ExpectedValidation
        /\ call.op = "new" =>
               /\ call.result.tag = ExpectedValidation.tag
               /\ call.result.tag = "Err" => call.result = ExpectedValidation
               /\ call.result.tag = "Ok" =>
                      /\ call.result.value = obs
                      /\ validate(call.result.value) = Ok(<<>>)

C24_Witness ==
    /\ Done
    /\ call.op = "new"
    /\ call.result = Err("InvalidBoardShape")
    /\ MineCountTooLarge
    /\ obs.rdim = obs.size
    /\ obs.fdim # obs.size

----------------------------------------------------------------------------
(* The play engine and the observation taken from it.                      *)

Cells(e) == nd_index(e.mine_layout.size)

\* C25: the observation taken from any reachable engine state has the
\* engine's size, mine_count Some(total mines) and both grids of the board's
\* dimensions; a cell's revealed entry is Some(n) exactly when the cell is
\* Revealed(n) and its flag is set exactly when the cell is Flagged, so no
\* revealed cell is flagged; build_constraints on it reports no
\* InvalidObservationShape.
C25_FromEngineMirrorsBoard ==
    call.op = "from_engine" =>
        /\ obs.size = before.mine_layout.size
        /\ obs.mine_count = Some(before.mine_layout.mine_count)
        /\ obs.rdim = <<obs.size[1], obs.size[2]>>
        /\ obs.fdim = <<obs.size[1], obs.size[2]>>
        /\ DOMAIN obs.revealed = Cells(before)
        /\ DOMAIN obs.flags = Cells(before)
        /\ \A c \in Cells(before) :
               /\ \A n \in 0 .. 8 :
                      obs.revealed[c] = Some(n) <=> before.board[c] = Revealed(n)
               /\ is_some(obs.revealed[c]) <=> before.board[c].tag = "Revealed"
               /\ obs.flags[c] <=> before.board[c] = Flagged
               /\ ~(obs.flags[c] /\ is_some(obs.revealed[c]))
        /\ InvalidObservationShape
               \notin Range(build_constraints(obs, cfg).contradictions)

\* An observation of a game in progress on a board that is not square, with a
\* revealed clue and a flag.
C25_Witness ==
    /\ call.op = "from_engine"
    /\ before.state = "Active"
    /\ obs.size[1] # obs.size[2]
    /\ \E c \in Cells(before) : obs.revealed[c] = Some(1)
    /\ \E c \in Cells(before) : obs.flags[c]

Playable(e) == e.state \in {"Ready", "Active"}

InBoard(e, coords) == coords \in Cells(e)

RevealedCellsOf(e) == {c \in Cells(e) : e.board[c].tag = "Revealed"}

\* C26: reveal at an in-bounds Hidden cell holding a mine, in state Ready or
\* Active, returns HitMine, leaves the state Lost and triggered_mine at the
\* cell, and reveals nothing: board and both counters are as before.
C26_RevealMineLoses ==
    (/\ call.op = "reveal"
     /\ InBoard(before, call.coords)
     /\ Playable(before)
     /\ before.board[call.coords] = Hidden
     /\ before.mine_layout.mine_mask[call.coords])
        => /\ call.result = Ok("HitMine")
           /\ engine.state = "Lost"
           /\ engine.triggered_mine = Some(call.coords)
           /\ engine.board = before.board
           /\ RevealedCellsOf(engine) = RevealedCellsOf(before)
           /\ engine.revealed_count = before.revealed_count
           /\ engine.flagged_count = before.flagged_count
           /\ engine.mine_layout = before.mine_layout

\* A mine is hit in a game in progress with a revealed and a flagged cell.
C26_Witness ==
    /\ call.op = "reveal"
    /\ InBoard(before, call.coords)
    /\ before.state = "Active"
    /\ before.board[call.coords] = Hidden
    /\ before.mine_layout.mine_mask[call.coords]
    /\ RevealedCellsOf(before) # {}
    /\ \E c \in Cells(before) : before.board[c] = Flagged
    /\ engine.state = "Lost"

\* The cells around c on e's board, and the number of mines among them,
\* counted over the integers from the mine mask.
Around(e, c) == Range(NeighborsInBounds(c, e.mine_layout.size))

MinesAround(e, c) == Cardinality({n \in Around(e, c) : e.mine_layout.mine_mask[n]})

\* The cells reached from the cells of region by 8-neighbour steps through
\* cells that are Hidden in e and have no mine around them.
RECURSIVE ZeroRegion(_, _)
ZeroRegion(e, region) ==
    LET more == {c \in Cells(e) \ region :
                    /\ e.board[c] = Hidden
                    /\ MinesAround(e, c) = 0
                    /\ \E z \in region : c \in Around(e, z)}
    IN IF more = {} THEN region ELSE ZeroRegion(e, region \cup more)

\* The cells a reveal at the zero cell start opens: the zero region of start
\* and the Hidden cells bordering it.
Opened(e, start) ==
    ZeroRegion(e, {start})
        \cup {c \in Cells(e) : /\ e.board[c] = Hidden
                               /\ \E z \in ZeroRegion(e, {start}) : c \in Around(e, z)}

\* A reveal of the Hidden mine-free cell call.coords of a game not finished; a
\* chord_reveal at a Hidden cell is the same single-cell reveal.
RevealsSafeCell ==
    /\ call.op \in {"reveal", "chord_reveal"}
    /\ InBoard(before, call.coords)
    /\ Playable(before)
    /\ before.board[call.coords] = Hidden
    /\ ~before.mine_layout.mine_mask[call.coords]

\* C27: revealing a Hidden mine-free cell with no mine around it reveals, with
\* their true adjacent-mine counts, the cells reachable from it through
\* Hidden zero cells and the Hidden cells bordering that region, and changes
\* no other cell: a Flagged cell stays Flagged and stops the expansion, no
\* mined cell is revealed, revealed_count grows by the number of cells opened,
\* and the fill terminates.
C27_FloodFillOpensZeroRegion ==
    (RevealsSafeCell /\ MinesAround(before, call.coords) = 0)
        => /\ \A c \in Cells(before) :
                  engine.board[c] =
                      IF c \in Opened(before, call.coords)
                      THEN Revealed(MinesAround(before, c))
                      ELSE before.board[c]
           /\ \A c \in Cells(before) :
                  before.board[c] = Flagged => engine.board[c] = Flagged
           /\ \A c \in Cells(before) :
                  before.mine_layout.mine_mask[c] => engine.board[c].tag # "Revealed"
           /\ engine.revealed_count
                  = before.revealed_count + Cardinality(Opened(before, call.coords))
           /\ engine.flagged_count = before.flagged_count

\* A fill that opens a second zero cell and a bordering clue cell, leaves a
\* Hidden cell beyond the clue cell closed, and is stopped by a flag.
C27_Witness ==
    /\ RevealsSafeCell
    /\ MinesAround(before, call.coords) = 0
    /\ Cardinality(ZeroRegion(before, {call.coords})) >= 2
    /\ \E c \in Opened(before, call.coords) : engine.board[c] = Revealed(1)
    /\ \E c \in Cells(before) : engine.board[c] = Hidden

\* A fill next to a flag on a zero cell: the flagged cell stays closed.
C27_WitnessFlag ==
    /\ RevealsSafeCell
    /\ MinesAround(before, call.coords) = 0
    /\ \E c \in Around(before, call.coords) :
           /\ before.board[c] = Flagged
           /\ MinesAround(before, c) = 0
           /\ engine.board[c] = Flagged

SafeCells(e) == {c \in Cells(e) : ~e.mine_layout.mine_mask[c]}

AllSafeRevealed(e) == Cardinality(RevealedCellsOf(e)) = Cardinality(SafeCells(e))

\* C28: a reveal of a mine-free Hidden cell returns Won and leaves the state
\* Won exactly when the Revealed cells afterwards are as many as the mine-free
\* cells; otherwise it returns Revealed and the state afterwards is Active,
\* whether it was Ready or Active.  In every reachable state, state Won
\* implies that every mine-free cell is Revealed.
C28_WonExactlyWhenAllSafeRevealed ==
    /\ RevealsSafeCell =>
           IF AllSafeRevealed(engine)
           THEN call.result = Ok("Won") /\ engine.state = "Won"
           ELSE call.result = Ok("Revealed") /\ engine.state = "Active"
    /\ engine.state = "Won" =>
           \A c \in SafeCells(engine) : engine.board[c].tag = "Revealed"

\* The last mine-free cells are opened by a flood fill in a game in progress
\* on a board with a mine.
C28_Witness ==
    /\ RevealsSafeCell
    /\ call.op = "reveal"
    /\ before.state = "Active"
    /\ engine.state = "Won"
    /\ call.result = Ok("Won")
    /\ Cardinality(RevealedCellsOf(engine)) >= Cardinality(RevealedCellsOf(before)) + 2
    /\ SafeCells(engine) # Cells(engine)

\* A first reveal that does not win starts the game.
C28_WitnessStarted ==
    /\ RevealsSafeCell
    /\ call.op = "reveal"
    /\ before.state = "Ready"
    /\ engine.state = "Active"
    /\ call.result = Ok("Revealed")

FlaggedAround(e, c) == {n \in Around(e, c) : e.board[n] = Flagged}

HiddenAround(e, c) == {n \in Around(e, c) : e.board[n] = Hidden}

\* A call op at the Revealed cell call.coords of a game in progress.
ChordAtRevealed(op) ==
    /\ call.op = op
    /\ InBoard(before, call.coords)
    /\ before.state = "Active"
    /\ before.board[call.coords].tag = "Revealed"

\* C29: chord_reveal in state Active at a Revealed(n) cell with exactly n
\* Flagged neighbours reveals every neighbour singly: a neighbour that was
\* Hidden is afterwards Revealed with its count when it is mine-free, and when
\* it is mined it stays Hidden, the state is Lost and triggered_mine is a
\* mined Hidden neighbour; Flagged and Revealed neighbours stay as they were.
\* With another number of Flagged neighbours nothing changes and the call
\* returns NoChange.
C29_ChordRevealOpensNeighbors ==
    ChordAtRevealed("chord_reveal") =>
        IF Cardinality(FlaggedAround(before, call.coords))
               = before.board[call.coords].count
        THEN /\ call.result.tag = "Ok"
             /\ \A c \in Around(before, call.coords) :
                    /\ before.board[c] = Flagged => engine.board[c] = Flagged
                    /\ before.board[c].tag = "Revealed" => engine.board[c] = before.board[c]
                    /\ (before.board[c] = Hidden /\ ~before.mine_layout.mine_mask[c])
                           => engine.board[c] = Revealed(MinesAround(before, c))
                    /\ (before.board[c] = Hidden /\ before.mine_layout.mine_mask[c])
                           => /\ engine.board[c] = Hidden
                              /\ engine.state = "Lost"
                              /\ engine.triggered_mine # None
                              /\ engine.triggered_mine[1] \in HiddenAround(before, call.coords)
                              /\ before.mine_layout.mine_mask[engine.triggered_mine[1]]
             /\ engine.board[call.coords] = before.board[call.coords]
             /\ engine.flagged_count = before.flagged_count
        ELSE /\ engine = before
             /\ call.result = Ok("NoChange")

\* A chord on a clue whose flag sits on a mine-free cell: the flag stays, a
\* mine-free Hidden neighbour is revealed and a mined one ends the game.
C29_Witness ==
    /\ ChordAtRevealed("chord_reveal")
    /\ Cardinality(FlaggedAround(before, call.coords)) = before.board[call.coords].count
    /\ before.board[call.coords].count >= 1
    /\ \E c \in HiddenAround(before, call.coords) : engine.board[c].tag = "Revealed"
    /\ \E c \in HiddenAround(before, call.coords) : before.mine_layout.mine_mask[c]
    /\ engine.state = "Lost"

\* A chord on a clue with too few flags around it.
C29_WitnessDiffers ==
    /\ ChordAtRevealed("chord_reveal")
    /\ Cardinality(FlaggedAround(before, call.coords)) < before.board[call.coords].count
    /\ HiddenAround(before, call.coords) # {}
    /\ call.result = Ok("NoChange")

UnrevealedAround(e, c) == {n \in Around(e, c) : e.board[n].tag # "Revealed"}

\* C30: chord_flag in state Active at a Revealed(n) cell with exactly n
\* unrevealed neighbours flags every Hidden neighbour and changes no other
\* cell, adds one to flagged_count for each cell newly flagged, and returns
\* Changed when at least one cell was flagged and NoChange otherwise.  At a
\* cell that is not revealed, or with another number of unrevealed
\* neighbours, nothing changes and the call returns NoChange.
C30_ChordFlagMarksHiddenNeighbors ==
    (/\ call.op = "chord_flag"
     /\ InBoard(before, call.coords)
     /\ before.state = "Active")
        => IF /\ before.board[call.coords].tag = "Revealed"
              /\ Cardinality(UnrevealedAround(before, call.coords))
                     = before.board[call.coords].count
           THEN /\ \A c \in Cells(before) :
                       engine.board[c] =
                           IF c \in HiddenAround(before, call.coords)
                           THEN Flagged ELSE before.board[c]
                /\ engine.flagged_count
                       = before.flagged_count
                             + Cardinality(HiddenAround(before, call.coords))
                /\ call.result =
                       Ok(IF HiddenAround(before, call.coords) # {}
                          THEN "Changed" ELSE "NoChange")
                /\ engine.state = before.state
                /\ engine.revealed_count = before.revealed_count
                /\ engine.triggered_mine = before.triggered_mine
           ELSE /\ engine = before
                /\ call.result = Ok("NoChange")

\* A chord that flags one cell next to a neighbour flagged before.
C30_Witness ==
    /\ call.op = "chord_flag"
    /\ InBoard(before, call.coords)
    /\ before.state = "Active"
    /\ before.board[call.coords].tag = "Revealed"
    /\ Cardinality(UnrevealedAround(before, call.coords)) = before.board[call.coords].count
    /\ Cardinality(HiddenAround(before, call.coords)) = 1
    /\ FlaggedAround(before, call.coords) # {}
    /\ call.result = Ok("Changed")
    /\ engine.flagged_count = 2

\* A chord that flags two cells.
C30_WitnessTwo ==
    /\ call.op = "chord_flag"
    /\ before.state = "Active"
    /\ engine.flagged_count = before.flagged_count + 2

\* A chord with every unrevealed neighbour flagged already, one with more
\* unrevealed neighbours than the clue, and one at a Hidden cell.
C30_WitnessNothingToFlag ==
    /\ call.op = "chord_flag"
    /\ InBoard(before, call.coords)
    /\ before.state = "Active"
    /\ before.board[call.coords].tag = "Revealed"
    /\ before.board[call.coords].count >= 1
    /\ Cardinality(UnrevealedAround(before, call.coords)) = before.board[call.coords].count
    /\ HiddenAround(before, call.coords) = {}
    /\ call.result = Ok("NoChange")

C30_WitnessDiffers ==
    /\ call.op = "chord_flag"
    /\ InBoard(before, call.coords)
    /\ before.state = "Active"
    /\ before.board[call.coords].tag = "Revealed"
    /\ Cardinality(UnrevealedAround(before, call.coords)) > before.board[call.coords].count
    /\ call.result = Ok("NoChange")

C30_WitnessHidden ==
    /\ call.op = "chord_flag"
    /\ InBoard(before, call.coords)
    /\ before.state = "Active"
    /\ before.board[call.coords] = Hidden
    /\ HiddenAround(before, call.coords) # {}
    /\ call.result = Ok("NoChange")

----------------------------------------------------------------------------
(* The game of lib.rs.                                                     *)

\* C31: once the Game is in a final state (Win, Lose, InstantWin or
\* InstantLoss) no move changes it: every call of flag, flag_question,
\* chord_flag, open, chord_open or open_with_chords, with any coordinates,
\* leaves grid, open_count, flag_count and state as they were.
C31_FinalGameIsFrozen ==
    [][(pc = "game" /\ is_final(engine.state))
           => /\ engine'.grid = engine.grid
              /\ engine'.open_count = engine.open_count
              /\ engine'.flag_count = engine.flag_count
              /\ engine'.state = engine.state]_vars

\* In a lost game with a Closed tile left, chord_flag passes its two tests
\* at an Open tile with a clue and runs its loop over the neighbours.
C31_Witness ==
    /\ pc = "game"
    /\ call.op = "chord_flag"
    /\ call.from = "Lose"
    /\ engine.state = "Lose"
    /\ call.result = Ok("MarkChanged")
    /\ engine.grid[call.coords].tag = "Open"
    /\ engine.grid[call.coords].count >= 1
    /\ \E c \in DOMAIN engine.grid : engine.grid[c] = Tile("Closed")

\* The transitions of GameState documented above the enum.
DocumentedTransitions ==
    {<<"NotStarted", "InstantWin">>, <<"NotStarted", "InstantLoss">>,
     <<"NotStarted", "InProgress">>, <<"InProgress", "Win">>, <<"InProgress", "Lose">>}

\* The states the Game went through in the last move: the one it was made
\* in, then the one after each open_tile call of the move.
StatesOfMove == <<call.from>> \o call.path

\* C32: the state field only makes the documented transitions: through every
\* move, each open_tile call of a chord taken singly, the state either stays
\* or goes NotStarted -> InstantWin, NotStarted -> InstantLoss,
\* NotStarted -> InProgress, InProgress -> Win or InProgress -> Lose.  So
\* mark_ended never takes its Win -> Lose or InstantWin -> InstantLoss branch.
C32_OnlyDocumentedTransitions ==
    (pc = "game" /\ call.op # "none")
        => /\ \A j \in 1 .. Len(StatesOfMove) - 1 :
                  \/ StatesOfMove[j] = StatesOfMove[j + 1]
                  \/ <<StatesOfMove[j], StatesOfMove[j + 1]>> \in DocumentedTransitions
           /\ engine.state = StatesOfMove[Len(StatesOfMove)]

\* A chord whose open_tile calls go on after one of them has won the game.
C32_Witness ==
    /\ pc = "game"
    /\ call.op \in {"chord_open", "open_with_chords"}
    /\ call.from = "InProgress"
    /\ Len(call.path) >= 2
    /\ call.path[1] = "Win"
    /\ call.result = Ok("Win")

\* On an over-full minefield with a cleared tile, the win test of a build
\* with overflow checks panics after the tile is opened, and the state is
\* the one the move was made in.
C32_WitnessOverflowPanic ==
    /\ pc = "game"
    /\ call.op = "open"
    /\ call.coords \in DOMAIN engine.grid
    /\ call.result = [tag |-> "Panic"]
    /\ engine.grid[call.coords].tag = "Open"
    /\ call.from = "NotStarted"
    /\ engine.state = "NotStarted"

\* The same move in a build without overflow checks: safe_count wraps and
\* the game goes on.
C32_WitnessOverflowWraps ==
    /\ pc = "game"
    /\ call.op = "open"
    /\ engine.minefield.count > Cardinality(DOMAIN engine.minefield.mines)
    /\ call.result = Ok("Safe")
    /\ call.from = "NotStarted"
    /\ engine.state = "InProgress"

\* A chord whose open_tile calls go on, and open a tile, after one of them
\* has hit a mine.
C32_WitnessLose ==
    /\ pc = "game"
    /\ call.op \in {"chord_open", "open_with_chords"}
    /\ call.from = "InProgress"
    /\ Len(call.path) >= 2
    /\ call.path[1] = "Lose"
    /\ \E c \in DOMAIN engine.grid : engine.grid[c] = Tile("Exploded")
    /\ engine.open_count >= 2

----------------------------------------------------------------------------
(* build_constraints: the shape of the components and of the equations.    *)

\* C33: in every output each component's variable_ids is strictly ascending
\* and its equation_ids is strictly ascending (so without duplicates), no
\* component is empty, of variables or of equations, and the components are
\* ordered by ascending smallest variable id.
C33_ComponentsSortedAndOrdered ==
    Done =>
        /\ \A k \in 1 .. Len(Components) :
               /\ Components[k].variable_ids # <<>>
               /\ Components[k].equation_ids # <<>>
               /\ StrictlyAscending(Components[k].variable_ids)
               /\ StrictlyAscending(Components[k].equation_ids)
        /\ \A k \in 1 .. Len(Components) - 1 :
               Components[k].variable_ids[1] < Components[k + 1].variable_ids[1]

\* A component of two variables listed by two equations.
C33_Witness ==
    /\ Done
    /\ \E k \in 1 .. Len(Components) :
           /\ Len(Components[k].variable_ids) >= 2
           /\ Len(Components[k].equation_ids) >= 2

\* Two components.
C33_WitnessTwoComponents ==
    /\ Done
    /\ Len(Components) >= 2

\* The simplified attachment rule: a LocalClue equation is pushed to the
\* component of the root of its first variable, and to no component when it
\* has no variable.  st is [dsu, components].
RECURSIVE attach_by_first_variable(_, _, _, _)

attach_first_root(f, st, root_to_component, equations, i) ==
    attach_by_first_variable(
        [dsu |-> f.dsu,
         components |->
             IF f.root \in DOMAIN root_to_component
             THEN [st.components EXCEPT
                       ![root_to_component[f.root] + 1].equation_ids =
                           Append(@, equations[i].id)]
             ELSE st.components],
        root_to_component, equations, i + 1)

attach_by_first_variable(st, root_to_component, equations, i) ==
    IF i > Len(equations) THEN st
    ELSE IF equations[i].kind.tag # "LocalClue" \/ equations[i].variable_ids = <<>>
    THEN attach_by_first_variable(st, root_to_component, equations, i + 1)
    ELSE attach_first_root(Dsu_find(st.dsu, equations[i].variable_ids[1]), st,
                           root_to_component, equations, i)

\* build_components with the simplified rule in the place of the root sets:
\* the same union loop, grouping loop and final sorting.
SimplifiedAttached(grouped, touched, variable_count, equations) ==
    finish_components(
        attach_by_first_variable([dsu |-> grouped.dsu, components |-> grouped.components],
                                 grouped.root_to_component, equations, 1).components,
        touched, variable_count)

SimplifiedGrouped(unioned, variable_count, equations) ==
    SimplifiedAttached(
        group_variables([dsu |-> unioned.dsu, root_to_component |-> <<>>,
                         components |-> <<>>],
                        unioned.touched, variable_count, 0),
        unioned.touched, variable_count, equations)

SimplifiedComponents(variable_count, equations) ==
    SimplifiedGrouped(
        union_equations([dsu |-> Dsu_new(variable_count),
                         touched |-> [v \in 0 .. variable_count - 1 |-> FALSE]],
                        equations, 1),
        variable_count, equations).components

\* C34: for every valid observation and configuration, attaching each
\* LocalClue equation through the set of the roots of its variables gives
\* every component the same equation_ids as attaching it to the component of
\* the root of its first variable, and to none when it has no variable.
C34_RootSetEqualsFirstVariable ==
    (Done /\ ValidObservation) =>
        SimplifiedComponents(Len(Variables), Equations) = Components

\* A component listing two equations, one of them over two variables.
C34_Witness ==
    /\ Done
    /\ ValidObservation
    /\ \E k \in 1 .. Len(Components) : Len(Components[k].equation_ids) >= 2
    /\ \E i \in LocalIndexes : Len(Equations[i].variable_ids) >= 2

\* An equation without variables next to a component.
C34_WitnessEmptyEquation ==
    /\ Done
    /\ ValidObservation
    /\ Len(Components) >= 1
    /\ \E i \in LocalIndexes : Equations[i].variable_ids = <<>>

----------------------------------------------------------------------------
(* The play engine: finished games, flags and the counters.                *)

Finished(e) == is_finished(e.state)

PlayCalls == {"reveal", "toggle_flag", "chord_flag", "chord_reveal"}

\* C35: Won and Lost are absorbing.  A call of reveal, toggle_flag,
\* chord_flag or chord_reveal on a finished engine, at any coordinates,
\* leaves board, revealed_count, flagged_count, state and triggered_mine as
\* they were, so the engine never returns to Ready; reveal at a Hidden cell
\* and the three other calls at in-bounds coordinates return
\* Err(AlreadyEnded).
C35_FinishedIsAbsorbing ==
    (call.op \in PlayCalls /\ Finished(before))
        => /\ engine.board = before.board
           /\ engine.revealed_count = before.revealed_count
           /\ engine.flagged_count = before.flagged_count
           /\ engine.state = before.state
           /\ engine.triggered_mine = before.triggered_mine
           /\ (/\ InBoard(before, call.coords)
               /\ call.op = "reveal" => before.board[call.coords] = Hidden)
                  => call.result = Err("AlreadyEnded")

\* reveal at a Hidden mine of a won game with a flag on the board.
C35_Witness ==
    /\ call.op = "reveal"
    /\ before.state = "Won"
    /\ InBoard(before, call.coords)
    /\ before.board[call.coords] = Hidden
    /\ before.mine_layout.mine_mask[call.coords]
    /\ before.flagged_count >= 1
    /\ call.result = Err("AlreadyEnded")

\* chord_reveal at a revealed clue of a lost game whose flags match the clue.
C35_WitnessChord ==
    /\ call.op = "chord_reveal"
    /\ before.state = "Lost"
    /\ InBoard(before, call.coords)
    /\ before.board[call.coords].tag = "Revealed"
    /\ before.board[call.coords].count >= 1
    /\ before.board[call.coords].count = count_flagged_neighbors(before, call.coords)
    /\ call.result = Err("AlreadyEnded")

\* toggle_flag and chord_flag in a finished game.
C35_WitnessFlag ==
    /\ call.op = "toggle_flag"
    /\ Finished(before)
    /\ InBoard(before, call.coords)
    /\ before.board[call.coords] = Flagged

C35_WitnessChordFlag ==
    /\ call.op = "chord_flag"
    /\ Finished(before)
    /\ InBoard(before, call.coords)
    /\ before.board[call.coords].tag = "Revealed"
    /\ before.board[call.coords].count = count_unrevealed_neighbors(before, call.coords)
    /\ hidden_neighbors(before, call.coords) # <<>>


\* The cells of e's board other than coords hold what they hold in f.
SameElsewhere(e, f, coords) == \A c \in Cells(e) \ {coords} : e.board[c] = f.board[c]

\* C36: toggle_flag changes the board only in state Active.  In Ready it
\* returns Err(AlreadyEnded) and changes nothing; in Active it turns a Hidden
\* cell Flagged and a Flagged cell Hidden returning Changed, returns NoChange
\* on a Revealed cell, leaves every other cell alone, and a second toggle of
\* the same cell gives back the engine of before the first; out-of-bounds
\* coordinates return Err(InvalidCoords) and change nothing.
C36_ToggleFlagOnlyInActive ==
    call.op = "toggle_flag"
        => /\ ~InBoard(before, call.coords)
                  => call.result = Err("InvalidCoords") /\ engine = before
           /\ (InBoard(before, call.coords) /\ before.state = "Ready")
                  => call.result = Err("AlreadyEnded") /\ engine = before
           /\ (InBoard(before, call.coords) /\ before.state # "Active")
                  => engine.board = before.board
           /\ (InBoard(before, call.coords) /\ before.state = "Active")
                  => /\ SameElsewhere(engine, before, call.coords)
                     /\ before.board[call.coords] = Hidden
                            => /\ engine.board[call.coords] = Flagged
                               /\ call.result = Ok("Changed")
                     /\ before.board[call.coords] = Flagged
                            => /\ engine.board[call.coords] = Hidden
                               /\ call.result = Ok("Changed")
                     /\ before.board[call.coords].tag = "Revealed"
                            => /\ engine = before
                               /\ call.result = Ok("NoChange")
                     /\ toggle_flag(engine, call.coords).engine = before

\* A flag is taken off in a game in progress that holds another flag.
C36_Witness ==
    /\ call.op = "toggle_flag"
    /\ InBoard(before, call.coords)
    /\ before.state = "Active"
    /\ before.board[call.coords] = Flagged
    /\ engine.board[call.coords] = Hidden
    /\ engine.flagged_count >= 1
    /\ call.result = Ok("Changed")

\* A flag is put on in a game in progress.
C36_WitnessFlagged ==
    /\ call.op = "toggle_flag"
    /\ InBoard(before, call.coords)
    /\ before.state = "Active"
    /\ before.board[call.coords] = Hidden
    /\ engine.board[call.coords] = Flagged

\* toggle_flag before the first reveal, on a revealed cell, and outside the
\* board.
C36_WitnessReady ==
    /\ call.op = "toggle_flag"
    /\ InBoard(before, call.coords)
    /\ before.state = "Ready"
    /\ call.result = Err("AlreadyEnded")

C36_WitnessRevealed ==
    /\ call.op = "toggle_flag"
    /\ InBoard(before, call.coords)
    /\ before.state = "Active"
    /\ before.board[call.coords].tag = "Revealed"

C36_WitnessOutside ==
    /\ call.op = "toggle_flag"
    /\ ~InBoard(before, call.coords)
    /\ before.state = "Active"
    /\ before.flagged_count >= 1

----------------------------------------------------------------------------
(* build_constraints: well-formed equations, and Soft against Strict.      *)

\* C37: every emitted equation, LocalClue or GlobalMineCount, is well
\* formed: its target is at least 0 and at most the number of its variables,
\* each of its variable ids is an existing variable id and occurs once in it,
\* the clue of a LocalClue equation is a revealed cell, and no two LocalClue
\* equations have the same clue.
C37_EquationsWellFormed ==
    Done =>
        /\ \A i \in 1 .. Len(Equations) :
              /\ Equations[i].target_mines >= 0
              /\ Equations[i].target_mines <= Len(Equations[i].variable_ids)
              /\ Range(Equations[i].variable_ids) \subseteq VariableIds
              /\ Cardinality(Range(Equations[i].variable_ids))
                     = Len(Equations[i].variable_ids)
        /\ \A i \in LocalIndexes :
              /\ Equations[i].kind.clue \in DOMAIN obs.revealed
              /\ is_some(obs.revealed[Equations[i].kind.clue])
              /\ \A j \in LocalIndexes :
                     Equations[j].kind.clue = Equations[i].kind.clue => j = i

\* Strict with a flag: two LocalClue equations and the GlobalMineCount
\* equation, one of them with all its variables mined and one over two
\* variables.
C37_Witness ==
    /\ Done
    /\ cfg.flag_semantics = "Strict"
    /\ \E c \in DOMAIN obs.flags : obs.flags[c]
    /\ Cardinality(LocalIndexes) >= 2
    /\ GlobalIndexes # {}
    /\ \E i \in 1 .. Len(Equations) :
          /\ Equations[i].variable_ids # <<>>
          /\ Equations[i].target_mines = Len(Equations[i].variable_ids)
    /\ \E i \in 1 .. Len(Equations) : Len(Equations[i].variable_ids) >= 2


\* The clues an output reports as LocalClueImpossible, and whether it reports
\* GlobalMineCountImpossible.
ImpossibleClues(output) ==
    {output.contradictions[k].clue :
        k \in {j \in 1 .. Len(output.contradictions) :
                  output.contradictions[j].tag = "LocalClueImpossible"}}

GlobalImpossible(output) ==
    \E k \in 1 .. Len(output.contradictions) :
        output.contradictions[k].tag = "GlobalMineCountImpossible"

SoftImpliesStrict(soft, strict) ==
    /\ ImpossibleClues(soft) \subseteq ImpossibleClues(strict)
    /\ GlobalImpossible(soft) => GlobalImpossible(strict)

\* C38: on a valid observation, with any flags, every clue reported
\* LocalClueImpossible under Soft is reported under Strict too, and when Soft
\* reports GlobalMineCountImpossible so does Strict with the same
\* mine_count_usage.
C38_SoftContradictionsHoldUnderStrict ==
    (Done /\ ValidObservation) =>
        IF cfg.flag_semantics = "Soft"
        THEN SoftImpliesStrict(out, build_constraints(obs, OtherSemantics(cfg)))
        ELSE SoftImpliesStrict(build_constraints(obs, OtherSemantics(cfg)), out)

\* Strict: a clue of 2 with one hidden neighbour, flagged, which Soft reports
\* as impossible, and a mine count above the number of hidden cells.
C38_Witness ==
    /\ Done
    /\ ValidObservation
    /\ cfg.flag_semantics = "Strict"
    /\ \E c \in ImpossibleClues(out) :
          /\ obs.revealed[c] = Some(2)
          /\ \E k \in 1 .. Len(MooreNeighbors(c)) :
                /\ MooreNeighbors(c)[k] \in HiddenCells
                /\ obs.flags[MooreNeighbors(c)[k]]
          /\ c \in ImpossibleClues(build_constraints(obs, OtherSemantics(cfg)))
    /\ GlobalImpossible(out)
    /\ GlobalImpossible(build_constraints(obs, OtherSemantics(cfg)))

\* Strict reports a clue that Soft accepts.
C38_WitnessStrictOnly ==
    /\ Done
    /\ ValidObservation
    /\ cfg.flag_semantics = "Strict"
    /\ ImpossibleClues(out) # {}
    /\ ImpossibleClues(build_constraints(obs, OtherSemantics(cfg))) = {}

----------------------------------------------------------------------------
(* The play engine: what every reachable state satisfies.                  *)

\* C39: in every reachable state triggered_mine is Some(c) exactly when the
\* state is Lost, and c then holds a mine; a won game has no triggered mine,
\* and a chord reveal that has won does not end lost.
C39_TriggeredMineIffLost ==
    pc = "play" =>
        /\ is_some(engine.triggered_mine) <=> engine.state = "Lost"
        /\ is_some(engine.triggered_mine)
               => /\ InBoard(engine, unwrap(engine.triggered_mine))
                  /\ engine.mine_layout.mine_mask[unwrap(engine.triggered_mine)]
        /\ engine.state = "Won" => engine.triggered_mine = None
        /\ (call.op = "chord_reveal" /\ call.result = Ok("Won"))
               => engine.state = "Won"
        /\ (call.op \in PlayCalls /\ before.state = "Won") => engine.state = "Won"

\* A chord reveal at a clue with a misplaced flag hits a mine next to the
\* clue: the game is lost and triggered_mine is that mine.
C39_Witness ==
    /\ pc = "play"
    /\ call.op = "chord_reveal"
    /\ before.state = "Active"
    /\ InBoard(before, call.coords)
    /\ before.board[call.coords].tag = "Revealed"
    /\ call.result = Ok("HitMine")
    /\ engine.state = "Lost"
    /\ is_some(engine.triggered_mine)
    /\ unwrap(engine.triggered_mine) \in Around(before, call.coords)
    /\ before.triggered_mine = None

\* A chord reveal wins the game.
C39_WitnessChordWins ==
    /\ pc = "play"
    /\ call.op = "chord_reveal"
    /\ before.state = "Active"
    /\ InBoard(before, call.coords)
    /\ before.board[call.coords].tag = "Revealed"
    /\ call.result = Ok("Won")
    /\ engine.state = "Won"
    /\ engine.triggered_mine = None


\* PlayEngine::total_mines and PlayEngine::mines_left (engine.rs 67-73)
total_mines(e) == e.mine_layout.mine_count

mines_left(e) == total_mines(e) - e.flagged_count

FlaggedCellsOf(e) == {c \in Cells(e) : e.board[c] = Flagged}

\* C40: in every reachable state revealed_count is the number of Revealed
\* cells and flagged_count the number of Flagged cells, so mines_left is
\* total_mines minus the number of Flagged cells, and every Revealed(n) cell
\* holds no mine and has n mines among its neighbours.
C40_CountersMatchBoard ==
    pc = "play" =>
        /\ engine.revealed_count = Cardinality(RevealedCellsOf(engine))
        /\ engine.flagged_count = Cardinality(FlaggedCellsOf(engine))
        /\ mines_left(engine) = total_mines(engine) - Cardinality(FlaggedCellsOf(engine))
        /\ \A c \in RevealedCellsOf(engine) :
              /\ ~engine.mine_layout.mine_mask[c]
              /\ engine.board[c].count = MinesAround(engine, c)

\* A flag has just been taken off; a flag and two revealed cells, one with a
\* mine next to it, remain, and more flags than mines were placed before.
C40_Witness ==
    /\ pc = "play"
    /\ call.op = "toggle_flag"
    /\ call.result = Ok("Changed")
    /\ before.flagged_count = 2
    /\ engine.flagged_count = 1
    /\ engine.revealed_count >= 1
    /\ \E c \in RevealedCellsOf(engine) : engine.board[c].count >= 1

\* A flood fill has revealed several cells around a flag.
C40_WitnessFlood ==
    /\ pc = "play"
    /\ call.op = "reveal"
    /\ engine.revealed_count >= before.revealed_count + 2
    /\ engine.flagged_count >= 1

\* More flags than mines: mines_left is negative.
C40_WitnessNegative ==
    /\ pc = "play"
    /\ mines_left(engine) < 0

====
